---------------------------- MODULE Spec2Model ----------------------------
(***************************************************************************)
(* A model of the git-flow-next VS Code extension (src/src/extension.ts,   *)
(* the activate() function that starts at line 984): the published context *)
(* flags and the refresh that computes them, the save-triggered timers,    *)
(* the command handlers and the argument resolvers they call.              *)
(*                                                                         *)
(* Text is a sequence of tokens.  A token is one character (" ", ":",      *)
(* "a", ...) or a fixed piece of text the code looks for as a whole        *)
(* ("feature/", "main", the text "No <kind> branches").                    *)
(***************************************************************************)
EXTENDS Integers, Sequences, FiniteSets, TLC

VARIABLES
    installed,      \* `git flow version` succeeds
    workspaceOpen,  \* vscode.workspace.workspaceFolders is non-empty
    gitOk,          \* `git branch --show-current` succeeds in the folder
    initialized,    \* gitflow.branch.master / .main is set in git config
    declined,       \* the repository paths in workspaceState's declined list
    repoPath,       \* workspaceFolders[0].uri.fsPath, the current repository
    isMac,          \* process.platform === 'darwin'
    head,           \* the name of the checked-out branch
    branches,       \* per kind, the names `git flow <kind> list` reports
    baseBranches,   \* the names of the branches that are no topic branches
    listStyle,      \* the layout of the external tool's list output
    listFails,      \* per kind, whether `git flow <kind> list` fails
    settings,       \* the gitFlowNext.* settings, per kind and global
    gitConfig,      \* gitflow.* keys of the repository's git config
    ctx,            \* the published context flags (setContext)
    tasks,          \* the asynchronous tasks in flight, by slot
    timers,         \* pending setTimeout callbacks of the save listener
    saves,          \* the qualifying save events seen so far
    now,            \* the time in ms
    changes         \* how often the repository or the settings were changed from outside

envVars == <<installed, workspaceOpen, gitOk, initialized, declined, repoPath, isMac,
             head, branches, baseBranches, listStyle, listFails, settings,
             gitConfig>>
vars == <<installed, workspaceOpen, gitOk, initialized, declined, repoPath, isMac,
          head, branches, baseBranches, listStyle, listFails, settings, gitConfig,
          ctx, tasks, timers, saves, now, changes>>

---------------------------------------------------------------------------
\* Bounds of the model.

\* Longest text a user types or a setting holds.
MaxLen == 2
\* Most branches of one kind in the repository when the extension starts.
MaxBranches == 1
\* Most save events in one behaviour.
MaxSaves == 2
\* Most changes made to the repository from outside the extension.
MaxEnvChanges == 1
\* Most refreshes started by workspace-folder changes, counting the first.
MaxRefreshes == 2
\* Most tasks in flight at once.
MaxTasks == 2
\* Most clock ticks.
MaxTicks == 1

---------------------------------------------------------------------------
\* Text.

Whitespace == {" ", "\n"}

RECURSIVE TrimLeft(_)
TrimLeft(s) ==
    IF s # <<>> /\ Head(s) \in Whitespace THEN TrimLeft(Tail(s)) ELSE s

RECURSIVE TrimRight(_)
TrimRight(s) ==
    IF s # <<>> /\ s[Len(s)] \in Whitespace
    THEN TrimRight(SubSeq(s, 1, Len(s) - 1))
    ELSE s

\* String.prototype.trim
Trim(s) == TrimRight(TrimLeft(s))

\* String.prototype.endsWith for a one-token suffix
EndsWith(s, c) == s # <<>> /\ s[Len(s)] = c

\* String.prototype.startsWith for a one-token prefix
StartsWith(s, c) == s # <<>> /\ s[1] = c

\* String.prototype.includes for a one-token needle
Includes(s, c) == \E i \in 1..Len(s) : s[i] = c

\* JavaScript truthiness of a string
Truthy(s) == s # <<>>

\* All texts over an alphabet up to a length.
RECURSIVE TextsUpTo(_, _)
TextsUpTo(alphabet, n) ==
    IF n = 0 THEN {<<>>}
    ELSE LET shorter == TextsUpTo(alphabet, n - 1)
         IN shorter \cup {Append(s, c) : s \in shorter, c \in alphabet}

---------------------------------------------------------------------------
\* Branch kinds and the context keys.

\* The order of the kinds in contextKeys and in the Promise.all of the refresh.
KindOrder == <<"feature", "release", "hotfix", "support", "bugfix">>
Kinds == {KindOrder[i] : i \in 1..Len(KindOrder)}

\* The prefix the classifier tests for a kind, one token.
Prefix(k) ==
    CASE k = "feature" -> "feature/"
      [] k = "release" -> "release/"
      [] k = "hotfix" -> "hotfix/"
      [] k = "support" -> "support/"
      [] k = "bugfix" -> "bugfix/"

OnKey(k) ==
    CASE k = "feature" -> "isOnFeatureBranch"
      [] k = "release" -> "isOnReleaseBranch"
      [] k = "hotfix" -> "isOnHotfixBranch"
      [] k = "support" -> "isOnSupportBranch"
      [] k = "bugfix" -> "isOnBugfixBranch"

ExistKey(k) ==
    CASE k = "feature" -> "featuresExist"
      [] k = "release" -> "releasesExist"
      [] k = "hotfix" -> "hotfixesExist"
      [] k = "support" -> "supportsExist"
      [] k = "bugfix" -> "bugfixesExist"

\* Object.values(contextKeys), in declaration order.
contextKeys ==
    <<"isOnTopicBranch",
      "isOnFeatureBranch", "isOnReleaseBranch", "isOnHotfixBranch",
      "isOnSupportBranch", "isOnBugfixBranch",
      "featuresExist", "releasesExist", "hotfixesExist",
      "supportsExist", "bugfixesExist",
      "isInstalled", "isInitialized">>

ContextKeySet == {contextKeys[i] : i \in 1..Len(contextKeys)}
BranchKeySet == {"isOnTopicBranch"} \cup {OnKey(k) : k \in Kinds}
ExistKeySet == {ExistKey(k) : k \in Kinds}

---------------------------------------------------------------------------
\* getCurrentBranch: the classification of a branch name.

BranchInfo(type, name, fullName) ==
    [type |-> type, name |-> name, fullName |-> fullName]

NoBranch == BranchInfo("none", <<>>, <<>>)

\* A replace that drops every occurrence.
ReplaceFirst_Every(s, c) == SelectSeq(s, LAMBDA x : x # c)

\* A getCurrentBranch that also throws on a detached HEAD.
CurrentBranchFails_Detached == ~workspaceOpen \/ ~gitOk \/ head = <<>>

\* String.prototype.replace(prefix, ''): the first occurrence is dropped.
RECURSIVE ReplaceFirst(_, _)
ReplaceFirst(s, c) ==
    IF s = <<>> THEN <<>>
    ELSE IF Head(s) = c THEN Tail(s)
    ELSE <<Head(s)>> \o ReplaceFirst(Tail(s), c)

Classify(stdout) ==
    LET branchName == Trim(stdout) IN
    IF StartsWith(branchName, "feature/")
        THEN BranchInfo("feature", ReplaceFirst(branchName, "feature/"), branchName)
    ELSE IF StartsWith(branchName, "release/")
        THEN BranchInfo("release", ReplaceFirst(branchName, "release/"), branchName)
    ELSE IF StartsWith(branchName, "hotfix/")
        THEN BranchInfo("hotfix", ReplaceFirst(branchName, "hotfix/"), branchName)
    ELSE IF StartsWith(branchName, "support/")
        THEN BranchInfo("support", ReplaceFirst(branchName, "support/"), branchName)
    ELSE IF StartsWith(branchName, "bugfix/")
        THEN BranchInfo("bugfix", ReplaceFirst(branchName, "bugfix/"), branchName)
    ELSE IF branchName = <<"main">> \/ branchName = <<"master">>
        THEN BranchInfo("main", branchName, branchName)
    ELSE IF branchName = <<"develop">>
        THEN BranchInfo("develop", branchName, branchName)
    ELSE BranchInfo("unknown", branchName, branchName)

\* What `git branch --show-current` prints.
BranchStdout == head \o <<"\n">>

\* A getCurrentBranch that throws only without a workspace folder.
CurrentBranchFails_FolderOnly == ~workspaceOpen

\* getCurrentBranch throws without a workspace folder and when git fails.
CurrentBranchFails == ~workspaceOpen \/ ~gitOk

IsTopic(type) == type \notin {"main", "develop", "unknown"}

\* The value updateContextVariables publishes for one of the six branch keys.
BranchFlag(key, info) ==
    IF key = "isOnTopicBranch" THEN IsTopic(info.type)
    ELSE \E k \in Kinds : key = OnKey(k) /\ info.type = k

---------------------------------------------------------------------------
\* The output of `git flow <kind> list` and how the extension reads it.

\* The text "No <kind> branches" of the tool's message, one token.
NoBranchesText == "No <kind> branches"

HeaderLine == <<"H", ":">>
MessageLine == <<NoBranchesText, " ", "x">>

RECURSIVE Indented(_)
Indented(names) ==
    IF names = <<>> THEN <<>>
    ELSE <<(<<" ", " ">> \o Head(names))>> \o Indented(Tail(names))

\* stdout.split('\n') of the list command: the lines, the last one empty.
ListLines(style, names) ==
    CASE style = "plain" -> names \o << <<>> >>
      [] style = "header" -> <<HeaderLine>> \o Indented(names) \o << <<>> >>
      [] style = "message" ->
            IF names = <<>> THEN <<MessageLine, <<>> >>
            ELSE Indented(names) \o << <<>> >>

ListStyles == {"plain", "header", "message"}

\* getBranchList's filters and map: blank lines and header lines are dropped.
RECURSIVE ParseBranchList(_)
ParseBranchList(lines) ==
    IF lines = <<>> THEN <<>>
    ELSE LET line == Head(lines)
             rest == ParseBranchList(Tail(lines))
         IN IF Truthy(Trim(line)) /\ ~EndsWith(Trim(line), ":")
            THEN <<Trim(line)>> \o rest
            ELSE rest

\* The handlers' parse without the filter for the "No <kind> branches" line.
ParseHandlerList_NoMessageFilter(lines) == ParseBranchList(lines)

\* The handlers' filters and map: the "No <kind> branches" line is dropped too.
RECURSIVE ParseHandlerList(_)
ParseHandlerList(lines) ==
    IF lines = <<>> THEN <<>>
    ELSE LET line == Head(lines)
             rest == ParseHandlerList(Tail(lines))
         IN IF /\ Truthy(Trim(line))
               /\ ~EndsWith(Trim(line), ":")
               /\ ~Includes(line, NoBranchesText)
            THEN <<Trim(line)>> \o rest
            ELSE rest

---------------------------------------------------------------------------
\* Tasks: one per running handler or refresh.

\* An entry of a task's log: a config write, a resolution of arguments, an
\* external command that ran ("exec") or was refused before it ran, a
\* message or prompt shown, a refresh started.  cmd is a sequence of words,
\* args a sequence of texts.
Event(ev, cmd, args, ok, phase) ==
    [ev |-> ev, cmd |-> cmd, args |-> args, ok |-> ok, phase |-> phase]

\* One getBranchList call of a refresh: where it stands, what it returned,
\* whether it showed the install prompt and whether the answer opened a
\* browser or a terminal.
Pending == [st |-> "pending", val |-> <<>>, asked |-> FALSE, ext |-> FALSE]
Prompting == [st |-> "prompt", val |-> <<>>, asked |-> TRUE, ext |-> FALSE]
Resolved(query, list) == [query EXCEPT !.st = "done", !.val = list]

\* An answer the user did not give: the box was cancelled or never shown.
NoInput == <<"(undefined)">>

\* What the user answers to the boxes a handler shows: the name typed into
\* promptForInput, the base typed after choosing 'Yes', whether an entry of
\* the quick pick is picked, the answer to the confirmation, the tag message.
NoAnswers ==
    [name |-> NoInput, base |-> NoInput, pick |-> FALSE, confirm |-> "No",
     tagMessage |-> NoInput, boxes |-> <<>>]

\* The argument lists a handler resolves before it builds its command.
NoFlags ==
    [start |-> <<>>, fetch |-> <<>>, strategy |-> <<>>, ff |-> <<>>,
     preserve |-> <<>>, tag |-> <<>>, retention |-> <<>>]

IdleTask ==
    [op |-> "idle", kind |-> "none", pc |-> "idle", idx |-> 0,
     origin |-> "none", seq |-> 0, failed |-> FALSE,
     inst |-> FALSE, init |-> FALSE, branch |-> NoBranch,
     q |-> [k \in Kinds |-> Pending],
     input |-> NoAnswers, flags |-> NoFlags, sel |-> <<>>,
     log |-> <<>>]

Slots == DOMAIN tasks

Free(t) == tasks[t].pc \in {"idle", "done"}

\* The phase an event of task t belongs to.
InRefresh(t) ==
    tasks[t].pc \in {"probeInstalled", "setInstalled", "probeInitialized",
                     "setInitialized", "getBranch", "setBranch", "lists",
                     "setExist", "catch"}

Phase(t) == IF InRefresh(t) THEN "refresh" ELSE "handler"

Logged(t, e) == Append(tasks[t].log, e)

\* The number of refreshes started so far: each gets the next number.
Started ==
    CHOOSE n \in {tasks[t].seq : t \in Slots} :
        \A t \in Slots : tasks[t].seq <= n

---------------------------------------------------------------------------
\* updateContextVariables, one action per await.

\* isGitFlowNextInstalled
IsGitFlowNextInstalled == installed

\* isGitFlowInitialized
IsGitFlowInitialized == workspaceOpen /\ initialized

\* The repository folders the user opens.
RepoPaths == <<"/r1", "/r2">>

\* The whole declined list is consulted, whatever the open folder.
HasDeclinedInstallation_AnyRepo == workspaceOpen /\ declined # {}

\* hasDeclinedInstallation: false without a repository path
HasDeclinedInstallation == workspaceOpen /\ repoPath \in declined

\* markInstallationDeclined: nothing without a repository path
MarkedDeclined == IF workspaceOpen THEN declined \cup {repoPath} ELSE declined

\* The task a call of updateContextVariables starts with.
RefreshEntry(task, origin, seq) ==
    [task EXCEPT !.pc = "probeInstalled", !.idx = 0, !.origin = origin,
                 !.seq = seq, !.failed = FALSE, !.branch = NoBranch,
                 !.q = [k \in Kinds |-> Pending]]

\* const isInstalled = await isGitFlowNextInstalled()
ProbeInstalled(t) ==
    /\ tasks[t].pc = "probeInstalled"
    /\ tasks' = [tasks EXCEPT ![t].inst = IsGitFlowNextInstalled,
                              ![t].pc = "setInstalled"]
    /\ UNCHANGED <<envVars, ctx, timers, saves, now, changes>>

\* await setContext(isInstalled)
SetInstalled(t) ==
    /\ tasks[t].pc = "setInstalled"
    /\ ctx' = [ctx EXCEPT !["isInstalled"] = tasks[t].inst]
    /\ tasks' = [tasks EXCEPT ![t].pc = "probeInitialized"]
    /\ UNCHANGED <<envVars, timers, saves, now, changes>>

\* const isInitialized = await isGitFlowInitialized()
ProbeInitialized(t) ==
    /\ tasks[t].pc = "probeInitialized"
    /\ tasks' = [tasks EXCEPT ![t].init = IsGitFlowInitialized,
                              ![t].pc = "setInitialized"]
    /\ UNCHANGED <<envVars, ctx, timers, saves, now, changes>>

\* await setContext(isInitialized); treeDataProvider.refresh()
SetInitialized(t) ==
    /\ tasks[t].pc = "setInitialized"
    /\ ctx' = [ctx EXCEPT !["isInitialized"] = tasks[t].init]
    /\ tasks' = [tasks EXCEPT
          ![t].pc = "getBranch",
          ![t].log = Logged(t, Event("tree", <<>>, <<>>, TRUE, "refresh"))]
    /\ UNCHANGED <<envVars, timers, saves, now, changes>>

\* const branchInfo = await getCurrentBranch(), or the jump to the catch block
RefreshGetBranch(t) ==
    /\ tasks[t].pc = "getBranch"
    /\ tasks' = [tasks EXCEPT ![t] =
          IF CurrentBranchFails
          THEN [@ EXCEPT !.pc = "catch", !.idx = 1, !.failed = TRUE]
          ELSE [@ EXCEPT !.pc = "setBranch", !.idx = 1,
                         !.branch = Classify(BranchStdout)]]
    /\ UNCHANGED <<envVars, ctx, timers, saves, now, changes>>

\* The six awaited setContext calls for the branch flags, one per step.
SetBranchFlag(t) ==
    /\ tasks[t].pc = "setBranch"
    /\ LET key == contextKeys[tasks[t].idx] IN
       ctx' = [ctx EXCEPT ![key] = BranchFlag(key, tasks[t].branch)]
    /\ tasks' = [tasks EXCEPT ![t] =
          IF @.idx < 1 + Len(KindOrder)
          THEN [@ EXCEPT !.idx = @ + 1]
          ELSE [@ EXCEPT !.pc = "lists", !.idx = 0]]
    /\ UNCHANGED <<envVars, timers, saves, now, changes>>

\* What settles the list phase once every getBranchList has returned.
AfterLists(task) ==
    IF \A k \in Kinds : task.q[k].st = "done"
    THEN [task EXCEPT !.pc = "setExist", !.idx = 1]
    ELSE task

\* A getBranchList without its own catch: one kind's failure empties every
\* kind's list.
BranchListResult_SharedFailure(k) ==
    IF ~IsGitFlowNextInstalled \/ ~workspaceOpen \/ (\E j \in Kinds : listFails[j])
    THEN <<>>
    ELSE ParseBranchList(ListLines(listStyle, branches[k]))

\* What getBranchList(k) returns: [] when executeGitFlowCommand throws, the
\* parsed lines otherwise.
BranchListResult(k) ==
    IF ~IsGitFlowNextInstalled \/ ~workspaceOpen \/ listFails[k]
    THEN <<>>
    ELSE ParseBranchList(ListLines(listStyle, branches[k]))

\* getBranchList(k) up to its result or to the install prompt of
\* executeGitFlowCommand (showOutput and showError are false).
ListQuery(t, k) ==
    /\ tasks[t].pc = "lists"
    /\ tasks[t].q[k].st = "pending"
    /\ IF ~IsGitFlowNextInstalled /\ ~HasDeclinedInstallation
       THEN tasks' = [tasks EXCEPT ![t].q[k] = Prompting]
       ELSE tasks' = [tasks EXCEPT
               ![t] = AfterLists([@ EXCEPT !.q[k] = Resolved(@, BranchListResult(k))])]
    /\ UNCHANGED <<envVars, ctx, timers, saves, now, changes>>

\* The answers the install prompt offers on the platform, and its dismissal.
InstallChoices ==
    IF isMac THEN {"Install via Homebrew", "Show Instructions", "Not Now", "dismissed"}
    ELSE {"Show Installation Instructions", "Not Now", "dismissed"}

\* "Install via Homebrew" opens a terminal or brew.sh, the instructions
\* open a browser.
OpensExternal(choice) == choice \notin {"Not Now", "dismissed"}

\* The user answers the install prompt; executeGitFlowCommand throws in
\* every case and getBranchList returns [].
ListPromptAnswered(t, k) ==
    /\ tasks[t].pc = "lists"
    /\ tasks[t].q[k].st = "prompt"
    /\ \E choice \in InstallChoices :
         /\ declined' = IF choice = "Not Now" THEN MarkedDeclined ELSE declined
         /\ tasks' = [tasks EXCEPT ![t] =
               AfterLists([@ EXCEPT
                   !.q[k] = Resolved([@ EXCEPT !.ext = OpensExternal(choice)], <<>>)])]
    /\ UNCHANGED <<installed, workspaceOpen, gitOk, initialized, repoPath, isMac, head,
                   branches, baseBranches, listStyle, listFails, settings, gitConfig,
                   ctx, timers, saves, now, changes>>

\* The five awaited setContext calls for the existence flags, one per step.
SetExistFlag(t) ==
    /\ tasks[t].pc = "setExist"
    /\ LET k == KindOrder[tasks[t].idx] IN
       ctx' = [ctx EXCEPT ![ExistKey(k)] = Len(tasks[t].q[k].val) > 0]
    /\ tasks' = [tasks EXCEPT ![t] =
          IF @.idx < Len(KindOrder)
          THEN [@ EXCEPT !.idx = @ + 1]
          ELSE [@ EXCEPT !.pc = "done", !.idx = 0]]
    /\ UNCHANGED <<envVars, timers, saves, now, changes>>

\* The catch block: every context key is set to false, one await per key.
CatchReset(t) ==
    /\ tasks[t].pc = "catch"
    /\ ctx' = [ctx EXCEPT ![contextKeys[tasks[t].idx]] = FALSE]
    /\ tasks' = [tasks EXCEPT ![t] =
          IF @.idx < Len(contextKeys)
          THEN [@ EXCEPT !.idx = @ + 1]
          ELSE [@ EXCEPT !.pc = "done", !.idx = 0]]
    /\ UNCHANGED <<envVars, timers, saves, now, changes>>

---------------------------------------------------------------------------
\* What starts a refresh outside the command handlers.

\* setTimeout(() => updateContextVariables(), 1000) of the save listener
DebounceMs == 1000
\* The clock moves one timer delay at a time.
TickMs == DebounceMs

NewActivation == RefreshEntry([IdleTask EXCEPT !.op = "refresh"], "activate", 1)

NewRefresh(origin) == RefreshEntry([IdleTask EXCEPT !.op = "refresh"], origin, Started + 1)

\* The lowest free slot takes the next task.
FirstFree(t) == Free(t) /\ \A u \in Slots : u < t => ~Free(u)

\* onDidChangeWorkspaceFolders: the folders changed, a refresh starts.
WorkspaceFoldersChanged(t) ==
    /\ FirstFree(t)
    /\ Started < MaxRefreshes
    /\ workspaceOpen' \in BOOLEAN
    /\ gitOk' \in BOOLEAN
    /\ tasks' = [tasks EXCEPT ![t] = NewRefresh("workspace")]
    /\ UNCHANGED <<installed, initialized, declined, repoPath, isMac, head, branches,
                   baseBranches, listStyle, listFails, settings, gitConfig,
                   ctx, timers, saves, now, changes>>

\* onDidSaveTextDocument for a file under .git/ or a .gitignore: a timer is
\* set; nothing is cleared.
SaveDocument ==
    /\ Len(saves) < MaxSaves
    /\ saves' = Append(saves, [at |-> now, fired |-> FALSE])
    /\ timers' = timers \cup {Len(saves) + 1}
    /\ UNCHANGED <<envVars, ctx, tasks, now, changes>>

\* A timer of the save listener runs out and calls updateContextVariables.
TimerFires(i, t) ==
    /\ i \in timers
    /\ now >= saves[i].at + DebounceMs
    /\ FirstFree(t)
    /\ timers' = timers \ {i}
    /\ saves' = [saves EXCEPT ![i].fired = TRUE]
    /\ tasks' = [tasks EXCEPT ![t] = NewRefresh("timer")]
    /\ UNCHANGED <<envVars, ctx, now, changes>>

\* Time passes while a timer is pending.
Tick ==
    /\ timers # {}
    /\ now + TickMs <= MaxTicks * TickMs
    /\ now' = now + TickMs
    /\ UNCHANGED <<envVars, ctx, tasks, timers, saves, changes>>

---------------------------------------------------------------------------
\* The repository as the extension finds it.

NameTokens == <<"a", "b", "c", "d">>
BranchNames == {<<NameTokens[i]>> : i \in 1..MaxBranches}

\* The lists of branch names of one kind: none, or the first n names.
BranchLists == {[i \in 1..n |-> <<NameTokens[i]>>] : n \in 0..MaxBranches}

\* The branches of a repository other than its topic branches.
DefaultBaseBranches == {<<"main">>, <<"develop">>}

Heads ==
    {<<"develop">>, <<>>} \cup {<<Prefix(k)>> \o n : k \in Kinds, n \in BranchNames}

\* The branches that exist and can be checked out.
CheckoutTargets ==
    {<<"develop">>}
    \cup UNION {{<<Prefix(k)>> \o branches[k][i] : i \in 1..Len(branches[k])} :
                k \in Kinds}

\* Someone checks out another branch or deletes branches in a terminal.
ExternalChange ==
    /\ changes < MaxEnvChanges
    /\ changes' = changes + 1
    /\ \/ /\ head' \in CheckoutTargets \ {head}
          /\ UNCHANGED branches
       \/ /\ \E k \in Kinds :
                /\ branches[k] # <<>>
                /\ branches' = [branches EXCEPT ![k] = <<>>]
          /\ UNCHANGED head
    /\ UNCHANGED <<installed, workspaceOpen, gitOk, initialized, declined, repoPath, isMac,
                   baseBranches, listStyle, listFails, settings, gitConfig,
                   ctx, tasks, timers, saves, now>>

\* config.get's defaults of the gitFlowNext settings.
DefaultKindSettings ==
    [finishStrategy |-> "merge", updateStrategy |-> "merge", startPoint |-> <<>>,
     autoUpdate |-> FALSE, fastForward |-> "no-ff", preserveMerges |-> FALSE,
     deleteRemote |-> FALSE, createTag |-> FALSE, tagPrefix |-> <<>>,
     keepBranch |-> "delete"]

DefaultSettings ==
    [remoteName |-> <<"origin">>, fetchBeforeStart |-> FALSE, signTags |-> FALSE,
     gpgSigningKey |-> <<>>, promptForTagMessage |-> FALSE, forceDelete |-> FALSE,
     kind |-> [k \in Kinds |-> DefaultKindSettings]]

\* The gitflow.* keys the extension writes, and the tool's branch-type
\* defaults the tool itself reads.
Unset == <<"(unset)">>
DefaultGitConfig ==
    [origin |-> Unset,
     deleteRemote |-> [k \in Kinds |-> Unset],
     upstreamStrategy |-> [k \in Kinds |-> "merge"],
     downstreamStrategy |-> [k \in Kinds |-> "merge"],
     tag |-> [k \in Kinds |-> k \in {"release", "hotfix", "support"}],
     master |-> Unset, develop |-> Unset, versiontag |-> Unset,
     prefix |-> [k \in Kinds |-> Unset]]

\* Which kinds have branches: none, all, only one kind, or all but one.
BranchPatterns ==
    {[k \in Kinds |-> l] : l \in BranchLists}
    \cup {[k \in Kinds |-> IF k = f THEN l ELSE <<>>] : f \in Kinds, l \in BranchLists}
    \cup {[k \in Kinds |-> IF k = f THEN <<>> ELSE l] : f \in Kinds, l \in BranchLists}

\* At most one kind's list command fails.
FailPatterns ==
    {[k \in Kinds |-> FALSE]} \cup {[k \in Kinds |-> k = f] : f \in Kinds}

AllFalse == [key \in ContextKeySet |-> FALSE]

\* activate() has called updateContextVariables() and returned.
Activated(n) ==
    /\ ctx = AllFalse
    /\ tasks = [t \in 1..n |-> IF t = 1 THEN NewActivation ELSE IdleTask]
    /\ timers = {}
    /\ saves = <<>>
    /\ now = 0
    /\ changes = 0
    /\ settings = DefaultSettings
    /\ gitConfig = DefaultGitConfig

---------------------------------------------------------------------------
\* The argument resolvers the handlers call.

Flag(word) == << <<word>> >>

\* config.get(`${branchType}.<setting>`, <default>): a branch type the
\* settings do not declare reads as the defaults.
KindSettings(branchType) ==
    IF branchType \in Kinds THEN settings.kind[branchType] ELSE DefaultKindSettings

\* getMergeStrategy
GetMergeStrategy(branchType, operation) ==
    LET strategy == IF operation = "finish"
                    THEN KindSettings(branchType).finishStrategy
                    ELSE KindSettings(branchType).updateStrategy
    IN IF strategy = "use-git-config" \/ strategy = "" THEN <<>>
       ELSE IF operation = "finish"
       THEN CASE strategy = "rebase" -> Flag("--rebase")
              [] strategy = "squash" -> Flag("--squash")
              [] strategy = "merge" -> <<>>
              [] OTHER -> <<>>
       ELSE CASE strategy = "rebase" -> Flag("--rebase")
              [] strategy = "merge" -> <<>>
              [] OTHER -> <<>>

\* getStartPoint: the setting is passed as it is stored, not trimmed.
GetStartPoint(branchType) ==
    LET startPoint == KindSettings(branchType).startPoint IN
    IF Truthy(startPoint) /\ Truthy(Trim(startPoint)) THEN <<startPoint>> ELSE <<>>

\* shouldAutoUpdate
ShouldAutoUpdate(branchType) == KindSettings(branchType).autoUpdate

\* shouldFetchBeforeStart
ShouldFetchBeforeStart == IF settings.fetchBeforeStart THEN Flag("--fetch") ELSE <<>>

\* A fast-forward resolver that treats every value but ff as the default.
GetFastForwardOptions_DefaultNoFf(branchType) ==
    IF KindSettings(branchType).fastForward = "ff" THEN Flag("--ff") ELSE Flag("--no-ff")

\* getFastForwardOptions
GetFastForwardOptions(branchType) ==
    LET fastForward == KindSettings(branchType).fastForward IN
    IF fastForward = "use-git-config" \/ fastForward = "" THEN <<>>
    ELSE CASE fastForward = "no-ff" -> Flag("--no-ff")
           [] fastForward = "ff" -> Flag("--ff")
           [] OTHER -> <<>>

\* A preserve-merges resolver that looks at the finish strategy too.
GetPreserveMergesOption_WhenRebasing(branchType) ==
    IF /\ KindSettings(branchType).preserveMerges
       /\ KindSettings(branchType).finishStrategy = "rebase"
    THEN Flag("--preserve-merges") ELSE <<>>

\* getPreserveMergesOption
GetPreserveMergesOption(branchType) ==
    IF KindSettings(branchType).preserveMerges THEN Flag("--preserve-merges") ELSE <<>>

\* A tag resolver that says nothing when no tag is wanted.
GetTagOptions_SilentWhenOff(branchType, branchName, tagMessage) ==
    IF KindSettings(branchType).createTag THEN Flag("--tag") ELSE <<>>

\* A tag resolver that passes the configured prefix on as it is.
GetTagOptions_RawPrefix(branchType, branchName, tagMessage) ==
    LET tagPrefix == KindSettings(branchType).tagPrefix
        gpgKey == settings.gpgSigningKey
    IN IF KindSettings(branchType).createTag
       THEN Flag("--tag")
            \o (IF Truthy(tagPrefix)
                THEN <<(<<"--tagprefix">>), tagPrefix>> ELSE <<>>)
            \o (IF /\ settings.promptForTagMessage /\ Truthy(branchName)
                   /\ tagMessage # NoInput
                   /\ Truthy(tagMessage) /\ Truthy(Trim(tagMessage))
                THEN <<(<<"--message">>), Trim(tagMessage)>> ELSE <<>>)
            \o (IF settings.signTags
                THEN Flag("--sign")
                     \o (IF Truthy(gpgKey) /\ Truthy(Trim(gpgKey))
                         THEN <<(<<"--signingkey">>), Trim(gpgKey)>> ELSE <<>>)
                ELSE <<>>)
       ELSE Flag("--notag")

\* A tag resolver that passes on whatever the message box returned.
GetTagOptions_AnyMessage(branchType, branchName, tagMessage) ==
    LET tagPrefix == KindSettings(branchType).tagPrefix
        gpgKey == settings.gpgSigningKey
    IN IF KindSettings(branchType).createTag
       THEN Flag("--tag")
            \o (IF Truthy(tagPrefix) /\ Truthy(Trim(tagPrefix))
                THEN <<(<<"--tagprefix">>), Trim(tagPrefix)>> ELSE <<>>)
            \o (IF /\ settings.promptForTagMessage /\ Truthy(branchName)
                   /\ tagMessage # NoInput
                THEN <<(<<"--message">>), tagMessage>> ELSE <<>>)
            \o (IF settings.signTags
                THEN Flag("--sign")
                     \o (IF Truthy(gpgKey) /\ Truthy(Trim(gpgKey))
                         THEN <<(<<"--signingkey">>), Trim(gpgKey)>> ELSE <<>>)
                ELSE <<>>)
       ELSE Flag("--notag")

\* getTagOptions; tagMessage is the answer to its input box.
GetTagOptions(branchType, branchName, tagMessage) ==
    LET tagPrefix == KindSettings(branchType).tagPrefix
        gpgKey == settings.gpgSigningKey
    IN IF KindSettings(branchType).createTag
       THEN Flag("--tag")
            \o (IF Truthy(tagPrefix) /\ Truthy(Trim(tagPrefix))
                THEN <<(<<"--tagprefix">>), Trim(tagPrefix)>> ELSE <<>>)
            \o (IF /\ settings.promptForTagMessage /\ Truthy(branchName)
                   /\ tagMessage # NoInput
                   /\ Truthy(tagMessage) /\ Truthy(Trim(tagMessage))
                THEN <<(<<"--message">>), Trim(tagMessage)>> ELSE <<>>)
            \o (IF settings.signTags
                THEN Flag("--sign")
                     \o (IF Truthy(gpgKey) /\ Truthy(Trim(gpgKey))
                         THEN <<(<<"--signingkey">>), Trim(gpgKey)>> ELSE <<>>)
                ELSE <<>>)
       ELSE Flag("--notag")

\* A retention resolver that forces the deletion only of a branch it deletes.
GetBranchRetentionOptions_ForceWhenDeleting(branchType) ==
    LET keepBranch == KindSettings(branchType).keepBranch IN
    CASE keepBranch = "keep" -> Flag("--keep")
      [] keepBranch = "keep-local" -> Flag("--keeplocal")
      [] keepBranch = "keep-remote" -> Flag("--keepremote")
      [] keepBranch = "delete" /\ settings.forceDelete -> Flag("--force-delete")
      [] OTHER -> <<>>

\* getBranchRetentionOptions
GetBranchRetentionOptions(branchType) ==
    LET keepBranch == KindSettings(branchType).keepBranch IN
    (IF keepBranch # "use-git-config"
     THEN CASE keepBranch = "keep" -> Flag("--keep")
            [] keepBranch = "keep-local" -> Flag("--keeplocal")
            [] keepBranch = "keep-remote" -> Flag("--keepremote")
            [] OTHER -> <<>>
     ELSE <<>>)
    \o (IF settings.forceDelete THEN Flag("--force-delete") ELSE <<>>)

\* if (base && base.trim()) baseArgs = [base.trim()]
BaseArgs(base) ==
    IF base # NoInput /\ Truthy(base) /\ Truthy(Trim(base)) THEN <<Trim(base)>> ELSE <<>>

\* A start point that adds the configured start point to the typed base.
StartPointArgs_Both(baseArgs, branchType) == baseArgs \o GetStartPoint(branchType)

\* baseArgs.length > 0 ? baseArgs : getStartPoint(kind)
StartPointArgs(baseArgs, branchType) ==
    IF Len(baseArgs) > 0 THEN baseArgs ELSE GetStartPoint(branchType)

\* The strategy the external tool applies: a command-line flag wins over the
\* branch type's configured strategy.  The extension never writes the
\* command-specific layer between the two.
EffectiveStrategy(args, branchDefault) ==
    IF \E i \in 1..Len(args) : args[i] = <<"--rebase">> THEN "rebase"
    ELSE IF \E i \in 1..Len(args) : args[i] = <<"--squash">> THEN "squash"
    ELSE branchDefault

\* Whether the external tool creates a tag: a command-line flag wins over
\* the branch type's tag setting.
EffectiveTag(args, branchDefault) ==
    IF \E i \in 1..Len(args) : args[i] = <<"--tag">> THEN TRUE
    ELSE IF \E i \in 1..Len(args) : args[i] = <<"--notag">> THEN FALSE
    ELSE branchDefault

---------------------------------------------------------------------------
\* The command handlers, one action per await.

\* The per-kind commands and the commands that act on the current branch.
KindOps == {"start", "finish", "checkout", "delete", "rename", "update"}
GlobalOps ==
    {"shorthandFinish", "shorthandDelete", "shorthandRebase", "shorthandUpdate",
     "shorthandRename", "shorthandPublish", "finishContinue", "finishAbort"}

Commands ==
    {<<op, k>> : op \in KindOps, k \in Kinds} \cup {<<op, "none">> : op \in GlobalOps}

\* Handlers that issue the start and finish commands before the config
\* writes and the resolution.
Steps_CommandFirst(op, kind) ==
    CASE op = "start" -> <<"exec", "configureRemote", "resolve", "refresh">>
      [] op = "finish" ->
            <<"branch", "list", "tag", "exec", "configureRemote",
              "configureDeleteRemote", "resolve", "refresh">>
      [] op \in {"checkout", "delete"} -> <<"list", "exec">>
      [] op \in {"rename", "shorthandDelete", "shorthandRename"} -> <<"branch", "exec">>
      [] op = "update" -> <<"resolve", "branch", "exec">>
      [] op \in {"finishContinue", "finishAbort"} -> <<"branch", "exec", "refresh">>
      [] OTHER -> <<"exec">>

\* A start handler that returns without the refresh.
Steps_StartWithoutRefresh(op, kind) ==
    IF op = "start" THEN <<"configureRemote", "resolve", "exec">>
    ELSE Steps_CommandFirst(op, kind)

\* The awaited steps of a handler in the order of its code.  A finish on the
\* kind's own branch goes from "branch" straight to "tag".
Steps(op, kind) ==
    CASE op = "start" -> <<"configureRemote", "resolve", "exec", "refresh">>
      [] op = "finish" ->
            <<"configureRemote", "configureDeleteRemote", "resolve", "branch",
              "list", "tag", "exec", "refresh">>
      [] op = "checkout" -> <<"list", "exec">>
      [] op = "delete" ->
            IF kind = "feature" THEN <<"list", "exec", "refresh">>
            ELSE <<"list", "exec">>
      [] op = "rename" -> <<"branch", "exec">>
      [] op = "update" -> <<"resolve", "branch", "exec">>
      [] op \in {"shorthandDelete", "shorthandRename"} -> <<"branch", "exec">>
      [] op \in {"finishContinue", "finishAbort"} -> <<"branch", "exec", "refresh">>
      [] OTHER -> <<"exec">>

\* The step that follows a step, or the handler's return.
StepAfter(op, kind, pc) ==
    LET s == Steps(op, kind)
        i == CHOOSE n \in 1..Len(s) : s[n] = pc
    IN IF i < Len(s) THEN s[i + 1] ELSE "done"

\* promptForInput accepts no blank name.
NameAnswers == {NoInput, <<"n">>}
\* The base box accepts anything.
BaseAnswers == {NoInput} \cup TextsUpTo({" ", "y"}, MaxLen)
TagMessageAnswers ==
    IF settings.promptForTagMessage
    THEN {NoInput, <<" ">>, <<"m">>, <<"m", " ">>} ELSE {NoInput}

\* The answers to a delete confirmation: its two buttons and its dismissal.
Confirmations == {"Yes", "No", "dismissed"}

Answers(op) ==
    CASE op = "start" ->
            {NoAnswers}
            \cup {[NoAnswers EXCEPT !.name = <<"n">>, !.base = b] : b \in BaseAnswers}
      [] op = "finish" ->
            {[NoAnswers EXCEPT !.pick = p, !.tagMessage = m] :
                p \in BOOLEAN, m \in TagMessageAnswers}
      [] op = "checkout" -> {[NoAnswers EXCEPT !.pick = p] : p \in BOOLEAN}
      [] op = "delete" ->
            {NoAnswers}
            \cup {[NoAnswers EXCEPT !.pick = TRUE, !.confirm = c] : c \in Confirmations}
      [] op \in {"rename", "shorthandRename"} ->
            {[NoAnswers EXCEPT !.name = n] : n \in NameAnswers}
      [] op = "shorthandDelete" ->
            {[NoAnswers EXCEPT !.confirm = c] : c \in Confirmations}
      [] OTHER -> {NoAnswers}

\* A start handler returns when the name box is cancelled.
HandlerEntry(op, kind, answers) ==
    [IdleTask EXCEPT
        !.op = op, !.kind = kind, !.input = answers,
        !.pc = IF op = "start" /\ answers.name = NoInput THEN "done"
               ELSE Steps(op, kind)[1]]

\* The user runs a command from the palette or the tree view.
Invoke(t) ==
    /\ tasks[t].pc = "idle"
    /\ \E c \in Commands :
         \E answers \in Answers(c[1]) :
            tasks' = [tasks EXCEPT ![t] = HandlerEntry(c[1], c[2], answers)]
    /\ UNCHANGED <<envVars, ctx, timers, saves, now, changes>>

\* `git config` run by configureRemote and configureDeleteRemote: the write
\* is attempted in a workspace and its failure is ignored.
ConfigWritten(value) == workspaceOpen /\ gitOk /\ Truthy(Trim(value))

BoolText(b) == IF b THEN <<"true">> ELSE <<"false">>

\* await configureRemote()
ConfigureRemote(t) ==
    /\ tasks[t].pc = "configureRemote"
    /\ LET task == tasks[t]
           value == settings.remoteName
       IN /\ gitConfig' = IF ConfigWritten(value)
                          THEN [gitConfig EXCEPT !.origin = value]
                          ELSE gitConfig
          /\ tasks' = [tasks EXCEPT ![t] =
                [task EXCEPT
                    !.pc = StepAfter(task.op, task.kind, "configureRemote"),
                    !.log = IF workspaceOpen
                            THEN Append(@, Event("config", <<"gitflow.origin">>,
                                                 <<value>>, ConfigWritten(value),
                                                 "handler"))
                            ELSE @]]
    /\ UNCHANGED <<installed, workspaceOpen, gitOk, initialized, declined, repoPath, isMac,
                   head, branches, baseBranches, listStyle, listFails, settings,
                   ctx, timers, saves, now, changes>>

\* await configureDeleteRemote(kind)
ConfigureDeleteRemote(t) ==
    /\ tasks[t].pc = "configureDeleteRemote"
    /\ LET task == tasks[t]
           value == BoolText(settings.kind[task.kind].deleteRemote)
       IN /\ gitConfig' = IF ConfigWritten(value)
                          THEN [gitConfig EXCEPT !.deleteRemote[task.kind] = value]
                          ELSE gitConfig
          /\ tasks' = [tasks EXCEPT ![t] =
                [task EXCEPT
                    !.pc = StepAfter(task.op, task.kind, "configureDeleteRemote"),
                    !.log = IF workspaceOpen
                            THEN Append(@, Event("config",
                                                 <<"gitflow.branch", task.kind,
                                                   "deleteRemote">>,
                                                 <<value>>, ConfigWritten(value),
                                                 "handler"))
                            ELSE @]]
    /\ UNCHANGED <<installed, workspaceOpen, gitOk, initialized, declined, repoPath, isMac,
                   head, branches, baseBranches, listStyle, listFails, settings,
                   ctx, timers, saves, now, changes>>

\* The arguments a handler resolves from the settings before its command.
ResolvedFlags(op, kind, answers) ==
    CASE op = "start" ->
            [NoFlags EXCEPT !.start = StartPointArgs(BaseArgs(answers.base), kind),
                            !.fetch = ShouldFetchBeforeStart]
      [] op = "finish" ->
            [NoFlags EXCEPT !.strategy = GetMergeStrategy(kind, "finish"),
                            !.ff = GetFastForwardOptions(kind),
                            !.preserve = GetPreserveMergesOption(kind),
                            !.retention = GetBranchRetentionOptions(kind)]
      [] op = "update" ->
            [NoFlags EXCEPT !.strategy = GetMergeStrategy(kind, "update")]
      [] OTHER -> NoFlags

\* The synchronous resolver calls between the config writes and the command.
Resolve(t) ==
    /\ tasks[t].pc = "resolve"
    /\ LET task == tasks[t] IN
       tasks' = [tasks EXCEPT ![t] =
            [task EXCEPT
                !.flags = ResolvedFlags(task.op, task.kind, task.input),
                !.pc = StepAfter(task.op, task.kind, "resolve"),
                !.log = Append(@, Event("resolve", <<task.kind, task.op>>, <<>>,
                                        TRUE, "handler"))]]
    /\ UNCHANGED <<envVars, ctx, timers, saves, now, changes>>

\* Handlers that go on after getCurrentBranch whatever the branch is.
AfterBranch_Ungated(op, kind, info, answers) ==
    IF op = "finish" /\ info.type = kind THEN "tag"
    ELSE StepAfter(op, kind, "branch")

\* Where a handler goes once it knows the current branch.
AfterBranch(op, kind, info, answers) ==
    CASE op = "finish" ->
            IF info.type = kind THEN "tag" ELSE StepAfter(op, kind, "branch")
      [] op = "rename" ->
            IF /\ info.type = kind
               /\ Truthy(info.name) /\ Truthy(Trim(info.name))
               /\ answers.name # NoInput
            THEN StepAfter(op, kind, "branch") ELSE "done"
      [] op = "update" ->
            IF info.type = kind THEN StepAfter(op, kind, "branch") ELSE "done"
      [] op = "shorthandDelete" ->
            IF IsTopic(info.type) /\ answers.confirm = "Yes"
            THEN StepAfter(op, kind, "branch") ELSE "done"
      [] op = "shorthandRename" ->
            IF IsTopic(info.type) /\ answers.name # NoInput
            THEN StepAfter(op, kind, "branch") ELSE "done"
      [] OTHER ->
            IF IsTopic(info.type) THEN StepAfter(op, kind, "branch") ELSE "done"

\* The message a handler shows when the current branch is not one it acts on.
BranchMessages(op, kind, info) ==
    IF op = "finish" THEN <<>>
    ELSE IF op \in {"rename", "update"}
    THEN IF info.type # kind
         THEN <<Event("warning", <<kind, op>>, <<>>, FALSE, "handler")>>
         ELSE IF op = "rename" /\ ~(Truthy(info.name) /\ Truthy(Trim(info.name)))
         THEN <<Event("error", <<kind, op>>, <<>>, FALSE, "handler")>>
         ELSE <<>>
    ELSE IF ~IsTopic(info.type)
         THEN <<Event("warning", <<op>>, <<>>, FALSE, "handler")>>
         ELSE <<>>

\* A handler that goes on with the checked-out branch although the query
\* for it failed.
HandlerGetBranch_IgnoresFailure(t) ==
    /\ tasks[t].pc = "branch"
    /\ LET task == tasks[t]
           info == Classify(BranchStdout)
       IN tasks' = [tasks EXCEPT ![t] =
            [task EXCEPT
                    !.branch = info,
                    !.sel = IF task.op = "finish" /\ info.type = task.kind
                            THEN info.name ELSE @,
                    !.pc = AfterBranch(task.op, task.kind, info, task.input),
                    !.log = @ \o BranchMessages(task.op, task.kind, info)]]
    /\ UNCHANGED <<envVars, ctx, timers, saves, now, changes>>

\* const branchInfo = await getCurrentBranch() of a handler
HandlerGetBranch(t) ==
    /\ tasks[t].pc = "branch"
    /\ LET task == tasks[t]
           info == Classify(BranchStdout)
       IN tasks' = [tasks EXCEPT ![t] =
            IF CurrentBranchFails
            THEN [task EXCEPT !.pc = "done"]
            ELSE [task EXCEPT
                    !.branch = info,
                    !.sel = IF task.op = "finish" /\ info.type = task.kind
                            THEN info.name ELSE @,
                    !.pc = AfterBranch(task.op, task.kind, info, task.input),
                    !.log = @ \o BranchMessages(task.op, task.kind, info)]]
    /\ UNCHANGED <<envVars, ctx, timers, saves, now, changes>>

\* The failure of an external command: the text of error.message, as tokens.
\* "Command failed: " opens the line Node puts in front of the tool's output,
\* "Error: " is the tool's marker, "x" is any other visible character.
FailureAlphabet == {"Command failed: ", "Error: ", "x", " ", "\n"}

\* The failure the external tool reports in the handlers' runs.
ToolFailure == <<"Command failed: ", "x", "\n", "Error: ", "x", "\n">>

\* The last token of the line that token i is on.
LineEnd(s, i) ==
    CHOOSE j \in i..Len(s) :
        /\ \A m \in i..j : s[m] # "\n"
        /\ j = Len(s) \/ s[j + 1] = "\n"

\* /Error: (.+?)(?:\n|$)/ matches at i: the marker and at least one
\* character of the same line after it.
MarkerAt(s, i) == s[i] = "Error: " /\ i < Len(s) /\ s[i + 1] # "\n"

\* The match at the last marker instead of the first.
ErrorMatch_LastMarker(s) ==
    LET starts == {i \in 1..Len(s) : MarkerAt(s, i)} IN
    IF starts = {} THEN [found |-> FALSE, group |-> <<>>]
    ELSE LET i == CHOOSE m \in starts : \A n \in starts : n <= m
         IN [found |-> TRUE, group |-> SubSeq(s, i + 1, LineEnd(s, i + 1))]

\* errorMessage.match(/Error: (.+?)(?:\n|$)/): the leftmost match and its
\* group, the rest of the marker's line.
ErrorMatch(s) ==
    LET starts == {i \in 1..Len(s) : MarkerAt(s, i)} IN
    IF starts = {} THEN [found |-> FALSE, group |-> <<>>]
    ELSE LET i == CHOOSE m \in starts : \A n \in starts : m <= n
         IN [found |-> TRUE, group |-> SubSeq(s, i + 1, LineEnd(s, i + 1))]

\* errorMessage.replace(/^Command failed: [^\n]+\n?/, ''): the first line and
\* its newline go when the text opens with the words and a command line.
WithoutCommandFailed(s) ==
    IF Len(s) >= 2 /\ s[1] = "Command failed: " /\ s[2] # "\n"
    THEN SubSeq(s, LineEnd(s, 2) + 2, Len(s))
    ELSE s

\* The errors executeGitFlowCommand throws itself.
NotInstalledError == <<"git-flow-next is not installed">>
NoWorkspaceError == <<"No workspace folder open">>

\* The message the catch block of executeGitFlowCommand surfaces.
ErrorMessage(failure) ==
    LET errorMatch == ErrorMatch(failure) IN
    IF errorMatch.found THEN errorMatch.group
    ELSE Trim(WithoutCommandFailed(failure))

\* executeGitFlowCommand up to its return or throw.  toolOk says whether the
\* external command exits with success, choice is the answer to the install
\* prompt.
ExecuteGitFlowCommand(cmd, args, toolOk, choice, showError, failure) ==
    LET refused == Event("refused", cmd, args, FALSE, "handler") IN
    IF ~IsGitFlowNextInstalled
    THEN IF HasDeclinedInstallation
         THEN [status |-> "refused", declined |-> declined, events |-> <<refused>>,
               thrown |-> NotInstalledError]
         ELSE [status |-> "refused",
               declined |-> IF choice = "Not Now" THEN MarkedDeclined ELSE declined,
               events |-> <<Event("prompt", cmd, Flag(choice),
                                  OpensExternal(choice), "handler"),
                            refused>>,
               thrown |-> NotInstalledError]
    ELSE IF ~workspaceOpen
    THEN [status |-> "refused", declined |-> declined, events |-> <<refused>>,
          thrown |-> NoWorkspaceError]
    ELSE IF toolOk
    THEN [status |-> "ok", declined |-> declined,
          events |-> <<Event("exec", cmd, args, TRUE, "handler")>>,
          thrown |-> <<>>]
    ELSE [status |-> "failed", declined |-> declined,
          events |-> <<Event("exec", cmd, args, FALSE, "handler")>>
                     \o (IF showError /\ Truthy(ErrorMessage(failure))
                         THEN <<Event("error", cmd, <<ErrorMessage(failure)>>,
                                      FALSE, "handler")>>
                         ELSE <<>>),
          thrown |-> failure]

\* A delete that goes on whatever the answer to its confirmation.
AfterList_Unconfirmed(op, kind, features, answers) ==
    IF features = <<>> THEN "done"
    ELSE IF ~answers.pick
    THEN IF op = "finish" THEN StepAfter(op, kind, "exec") ELSE "done"
    ELSE StepAfter(op, kind, "list")

\* Where a handler goes with the branches its list command returned.
AfterList(op, kind, features, answers) ==
    IF features = <<>> THEN "done"
    ELSE IF ~answers.pick
    THEN IF op = "finish" THEN StepAfter(op, kind, "exec") ELSE "done"
    ELSE IF op = "delete" /\ answers.confirm # "Yes" THEN "done"
    ELSE StepAfter(op, kind, "list")

\* The list command of a finish, checkout or delete handler, its parse and
\* the quick pick (and, for delete, the confirmation) that follow.
HandlerList(t) ==
    /\ tasks[t].pc = "list"
    /\ \E choice \in InstallChoices :
         LET task == tasks[t]
             r == ExecuteGitFlowCommand(<<task.kind, "list">>, <<>>,
                                        gitOk /\ ~listFails[task.kind], choice, TRUE,
                                        ToolFailure)
             features == ParseHandlerList(ListLines(listStyle, branches[task.kind]))
         IN /\ declined' = r.declined
            /\ tasks' = [tasks EXCEPT ![t] =
                 IF r.status # "ok"
                 THEN [task EXCEPT !.pc = "done", !.log = @ \o r.events]
                 ELSE [task EXCEPT
                         !.sel = IF features # <<>> /\ task.input.pick
                                 THEN features[1] ELSE @,
                         !.pc = AfterList(task.op, task.kind, features, task.input),
                         !.log = @ \o r.events
                                 \o (IF features = <<>>
                                     THEN <<Event("info", <<task.kind, task.op>>,
                                                  <<>>, TRUE, "handler")>>
                                     ELSE <<>>)]]
    /\ UNCHANGED <<installed, workspaceOpen, gitOk, initialized, repoPath, isMac, head,
                   branches, baseBranches, listStyle, listFails, settings, gitConfig,
                   ctx, timers, saves, now, changes>>

\* const tagArgs = await getTagOptions(kind, name)
TagOptions(t) ==
    /\ tasks[t].pc = "tag"
    /\ LET task == tasks[t] IN
       tasks' = [tasks EXCEPT ![t] =
            [task EXCEPT
                !.flags.tag = GetTagOptions(task.kind, task.sel, task.input.tagMessage),
                !.pc = StepAfter(task.op, task.kind, "tag"),
                !.log = Append(@, Event("resolve", <<task.kind, "tag">>, <<>>,
                                        TRUE, "handler"))]]
    /\ UNCHANGED <<envVars, ctx, timers, saves, now, changes>>

\* Handlers that pass the shorthand finish for every command without a kind.
HandlerCommand_Shorthand(task) ==
    IF task.op \in KindOps THEN <<task.kind, task.op>> ELSE <<"finish">>

\* The command line a handler passes to executeGitFlowCommand.
HandlerCommand(task) ==
    CASE task.op \in KindOps -> <<task.kind, task.op>>
      [] task.op = "shorthandFinish" -> <<"finish">>
      [] task.op = "shorthandDelete" -> <<"delete">>
      [] task.op = "shorthandRebase" -> <<"rebase">>
      [] task.op = "shorthandUpdate" -> <<"update">>
      [] task.op = "shorthandRename" -> <<"rename">>
      [] task.op = "shorthandPublish" -> <<"publish">>
      [] OTHER -> <<task.branch.type, "finish">>

\* The arguments with the finish flags in another order: retention before
\* the tag group.
HandlerArgs_RetentionFirst(task) ==
    CASE task.op = "start" ->
            <<task.input.name>> \o task.flags.start \o task.flags.fetch
      [] task.op = "finish" ->
            <<task.sel>> \o task.flags.strategy \o task.flags.ff
            \o task.flags.preserve \o task.flags.retention \o task.flags.tag
      [] task.op \in {"checkout", "delete"} -> <<task.sel>>
      [] task.op = "rename" -> <<task.branch.name, task.input.name>>
      [] task.op = "update" -> <<task.branch.name>> \o task.flags.strategy
      [] task.op = "shorthandRename" -> <<task.input.name>>
      [] task.op = "finishContinue" -> Flag("--continue")
      [] task.op = "finishAbort" -> Flag("--abort")
      [] OTHER -> <<>>

\* The argument list a handler passes to executeGitFlowCommand.
HandlerArgs(task) ==
    CASE task.op = "start" ->
            <<task.input.name>> \o task.flags.start \o task.flags.fetch
      [] task.op = "finish" ->
            <<task.sel>> \o task.flags.strategy \o task.flags.ff
            \o task.flags.preserve \o task.flags.tag \o task.flags.retention
      [] task.op \in {"checkout", "delete"} -> <<task.sel>>
      [] task.op = "rename" -> <<task.branch.name, task.input.name>>
      [] task.op = "update" -> <<task.branch.name>> \o task.flags.strategy
      [] task.op = "shorthandRename" -> <<task.input.name>>
      [] task.op = "finishContinue" -> Flag("--continue")
      [] task.op = "finishAbort" -> Flag("--abort")
      [] OTHER -> <<>>

\* The branch an external command acts on and what it does to it.
Verb(op) ==
    CASE op \in {"finish", "shorthandFinish", "finishContinue"} -> "finish"
      [] op \in {"delete", "shorthandDelete"} -> "delete"
      [] op \in {"rename", "shorthandRename"} -> "rename"
      [] OTHER -> op

Target(task) ==
    IF task.op \in KindOps
    THEN [kind |-> task.kind,
          name |-> CASE task.op = "start" -> task.input.name
                     [] task.op \in {"rename", "update"} -> task.branch.name
                     [] OTHER -> task.sel]
    ELSE LET cur == Classify(BranchStdout) IN [kind |-> cur.type, name |-> cur.name]

Has(names, n) == \E i \in 1..Len(names) : names[i] = n

Without(names, n) == SelectSeq(names, LAMBDA x : x # n)

Renamed(names, n, m) == [i \in 1..Len(names) |-> IF names[i] = n THEN m ELSE names[i]]

\* The external command can succeed: the branch it names exists, or, for a
\* start, does not exist yet.
CanSucceed(task) ==
    LET target == Target(task) IN
    /\ gitOk
    /\ target.kind \in Kinds
    /\ IF task.op = "start" THEN ~Has(branches[target.kind], target.name)
       ELSE Has(branches[target.kind], target.name)

Kept(args) == \E i \in 1..Len(args) : args[i] \in {<<"--keep">>, <<"--keeplocal">>}

\* What the external command leaves behind when it succeeds.
ToolEffect(verb, kind, name, newName, args) ==
    CASE verb = "start" ->
            [head |-> <<Prefix(kind)>> \o name,
             branches |-> [branches EXCEPT ![kind] = Append(@, name)]]
      [] verb = "finish" ->
            [head |-> <<"develop">>,
             branches |-> IF Kept(args) THEN branches
                          ELSE [branches EXCEPT ![kind] = Without(@, name)]]
      [] verb = "delete" ->
            [head |-> IF head = <<Prefix(kind)>> \o name THEN <<"develop">> ELSE head,
             branches |-> [branches EXCEPT ![kind] = Without(@, name)]]
      [] verb = "checkout" ->
            [head |-> <<Prefix(kind)>> \o name, branches |-> branches]
      [] verb = "rename" ->
            [head |-> <<Prefix(kind)>> \o newName,
             branches |-> [branches EXCEPT ![kind] = Renamed(@, name, newName)]]
      [] OTHER -> [head |-> head, branches |-> branches]

\* await executeGitFlowCommand(command, args) of a handler.  A throw ends
\* the handler in its catch block.
Exec(t) ==
    /\ tasks[t].pc = "exec"
    /\ \E toolOk \in BOOLEAN, choice \in InstallChoices :
         LET task == tasks[t]
             args == HandlerArgs(task)
             target == Target(task)
             r == ExecuteGitFlowCommand(HandlerCommand(task), args,
                                        toolOk /\ CanSucceed(task), choice, TRUE,
                                        ToolFailure)
             effect == IF r.status = "ok"
                       THEN ToolEffect(Verb(task.op), target.kind, target.name,
                                       task.input.name, args)
                       ELSE [head |-> head, branches |-> branches]
         IN /\ declined' = r.declined
            /\ head' = effect.head
            /\ branches' = effect.branches
            /\ tasks' = [tasks EXCEPT ![t] =
                 [task EXCEPT
                    !.pc = IF r.status = "ok"
                           THEN StepAfter(task.op, task.kind, "exec") ELSE "done",
                    !.log = @ \o r.events]]
    /\ UNCHANGED <<installed, workspaceOpen, gitOk, initialized, repoPath, isMac,
                   baseBranches, listStyle, listFails, settings, gitConfig,
                   ctx, timers, saves, now, changes>>

\* await updateContextVariables() of a handler: its last statement.
HandlerRefresh(t) ==
    /\ tasks[t].pc = "refresh"
    /\ LET task == tasks[t] IN
       tasks' = [tasks EXCEPT ![t] =
            RefreshEntry([task EXCEPT
                            !.log = Append(@, Event("refresh", <<>>, <<>>, TRUE,
                                                    "handler"))],
                         "handler", Started + 1)]
    /\ UNCHANGED <<envVars, ctx, timers, saves, now, changes>>

---------------------------------------------------------------------------
\* One refresh at a time, in every state of the tool and the repository.

\* The tool, the workspace and the platform vary; every kind has branches.
InitToolStates ==
    /\ installed \in BOOLEAN
    /\ workspaceOpen \in BOOLEAN
    /\ gitOk \in BOOLEAN
    /\ initialized \in BOOLEAN
    /\ repoPath = RepoPaths[1]
    /\ declined \in {{}, {repoPath}}
    /\ isMac \in BOOLEAN
    /\ head \in Heads
    /\ branches \in {[k \in Kinds |-> l] : l \in BranchLists \ {<<>>}}
    /\ baseBranches = DefaultBaseBranches
    /\ listStyle = "plain"
    /\ listFails = [k \in Kinds |-> FALSE]

\* The tool is installed; the branches, the list layout and the failing
\* list command vary.
InitListStates ==
    /\ installed = TRUE
    /\ workspaceOpen = TRUE
    /\ gitOk = TRUE
    /\ initialized = TRUE
    /\ repoPath = RepoPaths[1]
    /\ declined = {}
    /\ isMac = FALSE
    /\ head \in {<<"develop">>, <<Prefix("feature"), "a">>}
    /\ branches \in BranchPatterns
    /\ baseBranches = DefaultBaseBranches
    /\ listStyle \in ListStyles
    /\ listFails \in FailPatterns

\* The tool works; the checked-out branch has any name: a topic prefix
\* followed by a name, a name alone, or nothing.
NameTexts == TextsUpTo({"a", "main", "develop", "feature/"}, MaxLen)
ClassifierHeads ==
    {<<Prefix(k)>> \o n : k \in Kinds, n \in NameTexts \ {<<>>}}
    \cup NameTexts \cup {<<"master">>}

InitBranchNames ==
    /\ installed = TRUE
    /\ workspaceOpen = TRUE
    /\ gitOk = TRUE
    /\ initialized = TRUE
    /\ repoPath = RepoPaths[1]
    /\ declined = {}
    /\ isMac = FALSE
    /\ head \in ClassifierHeads
    /\ branches = [k \in Kinds |-> << <<"a">> >>]
    /\ baseBranches = DefaultBaseBranches
    /\ listStyle = "plain"
    /\ listFails = [k \in Kinds |-> FALSE]

InitSolo ==
    /\ InitToolStates \/ InitListStates \/ InitBranchNames
    /\ Activated(1)

NextSolo ==
    \/ \E t \in Slots : ProbeInstalled(t)
    \/ \E t \in Slots : SetInstalled(t)
    \/ \E t \in Slots : ProbeInitialized(t)
    \/ \E t \in Slots : SetInitialized(t)
    \/ \E t \in Slots : RefreshGetBranch(t)
    \/ \E t \in Slots : SetBranchFlag(t)
    \/ \E t \in Slots, k \in Kinds : ListQuery(t, k)
    \/ \E t \in Slots, k \in Kinds : ListPromptAnswered(t, k)
    \/ \E t \in Slots : SetExistFlag(t)
    \/ \E t \in Slots : CatchReset(t)
    \/ \E t \in Slots : WorkspaceFoldersChanged(t)

SpecSolo == InitSolo /\ [][NextSolo]_vars

---------------------------------------------------------------------------
\* Refreshes that overlap: the one activate() starts and the ones the save
\* timers start, while the repository changes under them.

InitOverlap ==
    /\ installed = TRUE
    /\ workspaceOpen = TRUE
    /\ gitOk = TRUE
    /\ initialized = TRUE
    /\ repoPath = RepoPaths[1]
    /\ declined = {}
    /\ isMac = FALSE
    /\ head = <<Prefix("feature"), "a">>
    /\ branches = [k \in Kinds |->
                      IF k \in {"feature", "release"} THEN << <<"a">> >> ELSE <<>>]
    /\ baseBranches = DefaultBaseBranches
    /\ listStyle = "plain"
    /\ listFails = [k \in Kinds |-> FALSE]
    /\ Activated(MaxTasks)

NextOverlap ==
    \/ \E t \in Slots : ProbeInstalled(t)
    \/ \E t \in Slots : SetInstalled(t)
    \/ \E t \in Slots : ProbeInitialized(t)
    \/ \E t \in Slots : SetInitialized(t)
    \/ \E t \in Slots : RefreshGetBranch(t)
    \/ \E t \in Slots : SetBranchFlag(t)
    \/ \E t \in Slots, k \in Kinds : ListQuery(t, k)
    \/ \E t \in Slots : SetExistFlag(t)
    \/ SaveDocument
    \/ \E i \in 1..MaxSaves, t \in Slots : TimerFires(i, t)
    \/ Tick
    \/ ExternalChange

SpecOverlap == InitOverlap /\ [][NextOverlap]_vars

---------------------------------------------------------------------------
\* One command handler at a time, run after the refresh of activate() has
\* settled.

\* What a refresh that ran alone in the current environment has published.
SettledContext ==
    [key \in ContextKeySet |->
        IF CurrentBranchFails THEN FALSE
        ELSE IF key = "isInstalled" THEN IsGitFlowNextInstalled
        ELSE IF key = "isInitialized" THEN IsGitFlowInitialized
        ELSE IF key \in BranchKeySet THEN BranchFlag(key, Classify(BranchStdout))
        ELSE \E k \in Kinds :
                /\ key = ExistKey(k)
                /\ IsGitFlowNextInstalled
                /\ ~listFails[k]
                /\ ParseBranchList(ListLines(listStyle, branches[k])) # <<>>]

\* The values the strategy settings offer, and the unset value.
StrategySettings == {"merge", "rebase", "squash", "use-git-config", ""}
\* The strategies the tool's branch configuration can name.
ToolStrategies == {"merge", "rebase", "squash"}
StartPointTexts == TextsUpTo({" ", "x"}, MaxLen)

\* The settings with one per-kind setting changed for every kind.
WithKindSetting(field, value) ==
    [DefaultSettings EXCEPT
        !.kind = [k \in Kinds |-> [DefaultKindSettings EXCEPT ![field] = value]]]

\* The tool's branch configuration with one strategy for every kind; the
\* update strategy cannot be squash.
WithToolStrategy(d) ==
    [DefaultGitConfig EXCEPT
        !.upstreamStrategy = [k \in Kinds |-> d],
        !.downstreamStrategy = [k \in Kinds |-> IF d = "squash" THEN "merge" ELSE d]]

\* The settings of the tag axis, the same for every kind.
TagPrefixTexts == {<<>>, <<" ">>, <<" ", "v">>}
SigningKeyTexts == {<<>>, <<"k">>}
TagSettings ==
    {[DefaultSettings EXCEPT
        !.signTags = sign, !.gpgSigningKey = key, !.promptForTagMessage = prompt,
        !.kind = [k \in Kinds |->
                    [DefaultKindSettings EXCEPT !.createTag = create,
                                                !.tagPrefix = prefix]]] :
        create \in BOOLEAN, prefix \in TagPrefixTexts, sign \in BOOLEAN,
        key \in SigningKeyTexts, prompt \in BOOLEAN}

\* The values the keepBranch and fastForward settings offer.
KeepBranchSettings == {"delete", "keep", "keep-local", "keep-remote", "use-git-config"}
FastForwardSettings == {"no-ff", "ff", "use-git-config", ""}

RetentionSettings ==
    {[DefaultSettings EXCEPT
        !.forceDelete = force,
        !.kind = [k \in Kinds |-> [DefaultKindSettings EXCEPT !.keepBranch = keep]]] :
        keep \in KeepBranchSettings, force \in BOOLEAN}

MergeSettings ==
    {[DefaultSettings EXCEPT
        !.kind = [k \in Kinds |->
                    [DefaultKindSettings EXCEPT !.fastForward = ff,
                                                !.preserveMerges = preserve]]] :
        ff \in FastForwardSettings, preserve \in BOOLEAN}

OneBranchEach == [k \in Kinds |-> << <<"a">> >>]

\* The tool, the workspace, the platform and the checked-out branch vary;
\* the settings are default.
InitHandlerTools ==
    /\ installed \in BOOLEAN
    /\ workspaceOpen \in BOOLEAN
    /\ gitOk \in BOOLEAN
    /\ initialized = TRUE
    /\ repoPath = RepoPaths[1]
    /\ declined \in {{}, {repoPath}}
    /\ isMac \in BOOLEAN
    /\ head \in {<<"develop">>, <<"main">>, <<>>, <<Prefix("feature")>>}
                \cup {<<Prefix(k), "a">> : k \in Kinds}
    /\ branches = OneBranchEach
    /\ baseBranches = DefaultBaseBranches
    /\ listStyle = "plain"
    /\ listFails = [k \in Kinds |-> FALSE]
    /\ settings = DefaultSettings
    /\ gitConfig = DefaultGitConfig

\* The tool works; the settings differ from the defaults on one axis, and
\* with a strategy setting the tool's own strategy varies too.
InitHandlerSettings ==
    /\ installed = TRUE
    /\ workspaceOpen = TRUE
    /\ gitOk = TRUE
    /\ initialized = TRUE
    /\ repoPath = RepoPaths[1]
    /\ declined = {}
    /\ isMac = FALSE
    /\ branches = OneBranchEach
    /\ baseBranches = DefaultBaseBranches
    /\ listStyle = "plain"
    /\ listFails = [k \in Kinds |-> FALSE]
    /\ \/ /\ settings \in {WithKindSetting("startPoint", s) : s \in StartPointTexts}
                          \cup {[DefaultSettings EXCEPT !.fetchBeforeStart = TRUE],
                                WithKindSetting("autoUpdate", TRUE)}
          /\ gitConfig = DefaultGitConfig
       \/ /\ settings \in {WithKindSetting("finishStrategy", v) : v \in StrategySettings}
                          \cup {WithKindSetting("updateStrategy", v) : v \in StrategySettings}
          /\ gitConfig \in {WithToolStrategy(d) : d \in ToolStrategies}
       \/ /\ settings \in TagSettings \cup RetentionSettings \cup MergeSettings
          /\ gitConfig = DefaultGitConfig
    /\ head \in {<<"develop">>, <<Prefix("feature"), "a">>}
                \cup (IF /\ settings.promptForTagMessage
                          /\ settings.kind["feature"].createTag
                          /\ ~settings.signTags
                       THEN {<<Prefix("feature")>>} ELSE {})

\* The tool works; the branches, the list layout and the failing list
\* command vary.
InitHandlerLists ==
    /\ installed = TRUE
    /\ workspaceOpen = TRUE
    /\ gitOk = TRUE
    /\ initialized = TRUE
    /\ repoPath = RepoPaths[1]
    /\ declined = {}
    /\ isMac = FALSE
    /\ head = <<"develop">>
    /\ branches \in {[k \in Kinds |-> l] : l \in BranchLists}
                    \cup {[k \in Kinds |-> IF k = "feature" THEN l ELSE <<>>] :
                            l \in BranchLists}
    /\ baseBranches = DefaultBaseBranches
    /\ listStyle \in ListStyles
    /\ listFails \in {[k \in Kinds |-> FALSE], [k \in Kinds |-> k = "feature"]}
    /\ settings = DefaultSettings
    /\ gitConfig = DefaultGitConfig

Init ==
    /\ InitHandlerTools \/ InitHandlerSettings \/ InitHandlerLists
    /\ ctx = SettledContext
    /\ tasks = [t \in {1} |-> IdleTask]
    /\ timers = {}
    /\ saves = <<>>
    /\ now = 0
    /\ changes = 0

Next ==
    \/ \E t \in Slots : Invoke(t)
    \/ \E t \in Slots : ConfigureRemote(t)
    \/ \E t \in Slots : ConfigureDeleteRemote(t)
    \/ \E t \in Slots : Resolve(t)
    \/ \E t \in Slots : HandlerGetBranch(t)
    \/ \E t \in Slots : HandlerList(t)
    \/ \E t \in Slots : TagOptions(t)
    \/ \E t \in Slots : Exec(t)
    \/ \E t \in Slots : HandlerRefresh(t)
    \/ \E t \in Slots : ProbeInstalled(t)
    \/ \E t \in Slots : SetInstalled(t)
    \/ \E t \in Slots : ProbeInitialized(t)
    \/ \E t \in Slots : SetInitialized(t)
    \/ \E t \in Slots : RefreshGetBranch(t)
    \/ \E t \in Slots : SetBranchFlag(t)
    \/ \E t \in Slots, k \in Kinds : ListQuery(t, k)
    \/ \E t \in Slots : SetExistFlag(t)

Spec == Init /\ [][Next]_vars

---------------------------------------------------------------------------
\* The argument resolvers on their own: the settings vary, one setting is
\* edited at a time, and the resolvers are called for a branch type and an
\* operation as the handlers call them.

\* Most edits of the settings in one behaviour.
MaxSettingChanges == 1

\* A branch type the settings do not declare.
OtherBranchType == "epic"

\* The per-kind settings a finish command's flags are resolved from.
FinishOptions ==
    {"finishStrategy", "fastForward", "preserveMerges", "createTag", "tagPrefix",
     "keepBranch"}

OptionValues(option) ==
    CASE option = "finishStrategy" -> StrategySettings
      [] option = "fastForward" -> FastForwardSettings
      [] option \in {"preserveMerges", "createTag"} -> BOOLEAN
      [] option = "tagPrefix" -> TagPrefixTexts
      [] option = "keepBranch" -> KeepBranchSettings

\* The user edits one finish setting of one kind before the resolvers are
\* called; getConfiguration reads the settings anew at every call.
ChangeSetting ==
    /\ changes < MaxSettingChanges
    /\ \A t \in Slots : tasks[t].pc = "idle"
    /\ \E k \in Kinds, option \in FinishOptions :
         \E v \in OptionValues(option) \ {settings.kind[k][option]} :
            settings' = [settings EXCEPT !.kind[k][option] = v]
    /\ changes' = changes + 1
    /\ UNCHANGED <<installed, workspaceOpen, gitOk, initialized, declined, repoPath, isMac,
                   head, branches, baseBranches, listStyle, listFails, gitConfig,
                   ctx, tasks, timers, saves, now>>

\* The resolver calls of a finish or update handler, for branch a of the
\* branch type; no resolver throws.
ResolveArguments(t) ==
    /\ tasks[t].pc = "idle"
    /\ \E branchType \in Kinds \cup {OtherBranchType},
          operation \in {"finish", "update"},
          m \in TagMessageAnswers :
         tasks' = [tasks EXCEPT ![t] =
            [IdleTask EXCEPT
                !.op = operation, !.kind = branchType, !.pc = "done",
                !.sel = <<"a">>, !.input.tagMessage = m,
                !.flags = [ResolvedFlags(operation, branchType, NoAnswers) EXCEPT
                              !.tag = IF operation = "finish"
                                      THEN GetTagOptions(branchType, <<"a">>, m)
                                      ELSE <<>>]]]
    /\ UNCHANGED <<envVars, ctx, timers, saves, now, changes>>

InitResolve ==
    /\ installed = TRUE
    /\ workspaceOpen = TRUE
    /\ gitOk = TRUE
    /\ initialized = TRUE
    /\ repoPath = RepoPaths[1]
    /\ declined = {}
    /\ isMac = FALSE
    /\ head = <<"develop">>
    /\ branches = OneBranchEach
    /\ baseBranches = DefaultBaseBranches
    /\ listStyle = "plain"
    /\ listFails = [k \in Kinds |-> FALSE]
    /\ settings \in {DefaultSettings} \cup RetentionSettings \cup MergeSettings
                    \cup {s \in TagSettings :
                            s.signTags /\ s.promptForTagMessage
                            /\ s.gpgSigningKey # <<>>}
    /\ gitConfig = DefaultGitConfig
    /\ ctx = SettledContext
    /\ tasks = [t \in {1} |-> IdleTask]
    /\ timers = {}
    /\ saves = <<>>
    /\ now = 0
    /\ changes = 0

NextResolve ==
    \/ ChangeSetting
    \/ \E t \in Slots : ResolveArguments(t)

SpecResolve == InitResolve /\ [][NextResolve]_vars

---------------------------------------------------------------------------
\* The init commands and the setup wizard, one run at a time.

InitCommands == {"init", "initFromWelcome"}

\* The input boxes of the wizard in the order they are shown, named by the
\* gitflow key each answer is stored under.
InitBoxes ==
    <<"master", "develop", "feature", "bugfix", "release", "hotfix", "support",
      "versiontag">>

InitBoxSet == {InitBoxes[i] : i \in DOMAIN InitBoxes}

\* The value a box is filled with when it opens.
BoxDefault(box) ==
    CASE box = "master" -> <<"main">>
      [] box = "develop" -> <<"develop">>
      [] box = "versiontag" -> <<"v">>
      [] OTHER -> <<Prefix(box)>>

\* A prefix of the user's own for a kind.
CustomPrefix(k) ==
    CASE k = "feature" -> "feat/"
      [] k = "release" -> "rel/"
      [] k = "hotfix" -> "fix/"
      [] k = "support" -> "sup/"
      [] k = "bugfix" -> "bug/"

\* What the user may type into a box instead.
BoxCustom(box) ==
    CASE box = "master" -> {<<"master">>, <<"trunk">>, <<"t", "\"">>}
      [] box = "develop" -> {<<"dev">>}
      [] box = "versiontag" -> {<<"r">>}
      [] OTHER -> {<<CustomPrefix(box)>>}

DefaultBoxes == [box \in InitBoxSet |-> BoxDefault(box)]

\* The answers to the eight boxes: the preset values accepted, one box
\* changed, cleared or cancelled, or every box changed.
InitAnswers ==
    {DefaultBoxes}
    \cup UNION {{[DefaultBoxes EXCEPT ![box] = v] :
                    v \in BoxCustom(box) \cup {NoInput, <<>>}} : box \in InitBoxSet}
    \cup {[box \in InitBoxSet |-> CHOOSE v \in BoxCustom(box) : Len(v) = 1]}

\* value.replace(/"/g, '\\"')
RECURSIVE Escape(_)
Escape(s) ==
    IF s = <<>> THEN <<>>
    ELSE (IF Head(s) = "\"" THEN <<"\\", "\"">> ELSE <<Head(s)>>) \o Escape(Tail(s))

\* What the shell passes to git for the text between the double quotes of
\* `git config <key> "<text>"`: a backslash before a quote or a backslash is
\* dropped.
RECURSIVE ShellWord(_)
ShellWord(w) ==
    IF w = <<>> THEN <<>>
    ELSE IF Head(w) = "\\" /\ Len(w) >= 2 /\ w[2] \in {"\"", "\\"}
    THEN <<w[2]>> \o ShellWord(Tail(Tail(w)))
    ELSE <<Head(w)>> \o ShellWord(Tail(w))

StoredValue(answer) == ShellWord(Escape(answer))

\* The user runs git-flow-next.init or git-flow-next.initFromWelcome.
InvokeInit(t) ==
    /\ tasks[t].pc = "idle"
    /\ \E command \in InitCommands, boxes \in InitAnswers, c \in {"Yes", "No"} :
         tasks' = [tasks EXCEPT ![t] =
            [IdleTask EXCEPT !.op = command, !.pc = "initProbe",
                             !.input.boxes = boxes, !.input.confirm = c]]
    /\ UNCHANGED <<envVars, ctx, timers, saves, now, changes>>

\* The first box, in the order shown, left empty or cancelled.
Cancelled(boxes) ==
    \E i \in DOMAIN InitBoxes : boxes[InitBoxes[i]] \in {NoInput, <<>>}

\* The handler from its isGitFlowInitialized() probe to the first
\* `git config` of runGitFlowInitSetup: the re-initialize question, the
\* workspace and `git rev-parse` checks, the set-up question and the eight
\* boxes.  None of these steps writes anything.
InitProbe(t) ==
    /\ tasks[t].pc = "initProbe"
    /\ LET task == tasks[t]
           isInitialized == IsGitFlowInitialized
           skipConfirmation == task.op = "initFromWelcome" \/ isInitialized
           note(ev) == <<Event(ev, <<task.op>>, <<>>, FALSE, "handler")>>
       IN tasks' = [tasks EXCEPT ![t] =
            IF task.op = "initFromWelcome" /\ isInitialized
            THEN [task EXCEPT !.pc = "refresh", !.log = @ \o note("info")]
            ELSE IF task.op = "init" /\ isInitialized /\ task.input.confirm # "Yes"
            THEN [task EXCEPT !.pc = "done", !.log = @ \o note("warning")]
            ELSE IF ~workspaceOpen
            THEN [task EXCEPT !.pc = "done"]
            ELSE IF ~gitOk
            THEN [task EXCEPT !.pc = "done", !.log = @ \o note("error")]
            ELSE IF ~skipConfirmation /\ task.input.confirm # "Yes"
            THEN [task EXCEPT !.pc = "done", !.log = @ \o note("prompt")]
            ELSE IF Cancelled(task.input.boxes)
            THEN [task EXCEPT !.pc = "done"]
            ELSE [task EXCEPT !.pc = "write", !.idx = 1]]
    /\ UNCHANGED <<envVars, ctx, timers, saves, now, changes>>

\* The git config key of a box.
ConfigKey(box) ==
    IF box \in {"master", "develop"} THEN <<"gitflow.branch", box>>
    ELSE <<"gitflow.prefix", box>>

Written(config, box, value) ==
    CASE box = "master" -> [config EXCEPT !.master = value]
      [] box = "develop" -> [config EXCEPT !.develop = value]
      [] box = "versiontag" -> [config EXCEPT !.versiontag = value]
      [] OTHER -> [config EXCEPT !.prefix[box] = value]

\* await execAsync(cmd) for one of the eight configuration commands; a
\* failure ends the wizard in its catch block.
WriteConfig(t) ==
    /\ tasks[t].pc = "write"
    /\ \E ok \in BOOLEAN :
         LET task == tasks[t]
             box == InitBoxes[task.idx]
             value == StoredValue(task.input.boxes[box])
             event == Event("config", ConfigKey(box), <<value>>, ok, "handler")
         IN IF ok
            THEN /\ gitConfig' = Written(gitConfig, box, value)
                 /\ initialized' = (initialized \/ box = "master")
                 /\ tasks' = [tasks EXCEPT ![t] =
                      [task EXCEPT
                          !.pc = IF task.idx = Len(InitBoxes) THEN "ensureDevelop"
                                 ELSE "write",
                          !.idx = IF task.idx = Len(InitBoxes) THEN 0 ELSE @ + 1,
                          !.log = Append(@, event)]]
            ELSE /\ UNCHANGED <<gitConfig, initialized>>
                 /\ tasks' = [tasks EXCEPT ![t] =
                      [task EXCEPT
                          !.pc = "done",
                          !.log = @ \o <<event,
                                         Event("error", <<task.op>>, <<>>, FALSE,
                                               "handler")>>]]
    /\ UNCHANGED <<installed, workspaceOpen, gitOk, declined, repoPath, isMac, head,
                   branches, baseBranches, listStyle, listFails, settings,
                   ctx, timers, saves, now, changes>>

\* `git show-ref --verify --quiet refs/heads/<develop>` and, when it fails,
\* `git branch "<develop>"`; then the success message.
EnsureDevelop(t) ==
    /\ tasks[t].pc = "ensureDevelop"
    /\ \E ok \in BOOLEAN :
         LET task == tasks[t]
             develop == task.input.boxes["develop"]
             exists == develop \in baseBranches
             branch(created) ==
                Event("branch", <<"git", "branch">>, <<StoredValue(develop)>>,
                      created, "handler")
         IN IF exists
            THEN /\ ok
                 /\ UNCHANGED baseBranches
                 /\ tasks' = [tasks EXCEPT ![t] =
                      [task EXCEPT
                          !.pc = "refresh",
                          !.log = Append(@, Event("info", <<task.op>>, <<>>, TRUE,
                                                  "handler"))]]
            ELSE IF ok
            THEN /\ baseBranches' = baseBranches \cup {StoredValue(develop)}
                 /\ tasks' = [tasks EXCEPT ![t] =
                      [task EXCEPT
                          !.pc = "refresh",
                          !.log = @ \o <<branch(TRUE),
                                         Event("info", <<task.op>>, <<>>, TRUE,
                                               "handler")>>]]
            ELSE /\ UNCHANGED baseBranches
                 /\ tasks' = [tasks EXCEPT ![t] =
                      [task EXCEPT
                          !.pc = "done",
                          !.log = @ \o <<branch(FALSE),
                                         Event("error", <<task.op>>, <<>>, FALSE,
                                               "handler")>>]]
    /\ UNCHANGED <<installed, workspaceOpen, gitOk, initialized, declined, repoPath, isMac,
                   head, branches, listStyle, listFails, settings, gitConfig,
                   ctx, timers, saves, now, changes>>

\* The branches a repository set up with the preset or the user's own names
\* can have checked out.
InitHeads ==
    UNION {{BoxDefault(box)} \cup BoxCustom(box) : box \in {"master", "develop"}}
    \cup {<<Prefix(k), "a">> : k \in Kinds}
    \cup {<<CustomPrefix(k), "a">> : k \in Kinds}

InitSetup ==
    /\ installed = TRUE
    /\ repoPath = RepoPaths[1]
    /\ declined = {}
    /\ isMac = FALSE
    /\ initialized \in BOOLEAN
    /\ \/ /\ workspaceOpen \in BOOLEAN
          /\ gitOk \in BOOLEAN
          /\ head = <<"main">>
          /\ baseBranches \in {{<<"main">>}, DefaultBaseBranches}
       \/ /\ workspaceOpen = TRUE
          /\ gitOk = TRUE
          /\ head \in InitHeads
          /\ baseBranches = DefaultBaseBranches \cup {head}
    /\ branches = OneBranchEach
    /\ listStyle = "plain"
    /\ listFails = [k \in Kinds |-> FALSE]
    /\ settings = DefaultSettings
    /\ gitConfig = DefaultGitConfig
    /\ ctx = SettledContext
    /\ tasks = [t \in {1} |-> IdleTask]
    /\ timers = {}
    /\ saves = <<>>
    /\ now = 0
    /\ changes = 0

NextSetup ==
    \/ \E t \in Slots : InvokeInit(t)
    \/ \E t \in Slots : InitProbe(t)
    \/ \E t \in Slots : WriteConfig(t)
    \/ \E t \in Slots : EnsureDevelop(t)
    \/ \E t \in Slots : HandlerRefresh(t)
    \/ \E t \in Slots : ProbeInstalled(t)
    \/ \E t \in Slots : SetInstalled(t)
    \/ \E t \in Slots : ProbeInitialized(t)
    \/ \E t \in Slots : SetInitialized(t)
    \/ \E t \in Slots : RefreshGetBranch(t)
    \/ \E t \in Slots : SetBranchFlag(t)
    \/ \E t \in Slots, k \in Kinds : ListQuery(t, k)
    \/ \E t \in Slots : SetExistFlag(t)
    \/ \E t \in Slots : CatchReset(t)

SpecSetup == InitSetup /\ [][NextSetup]_vars

---------------------------------------------------------------------------
\* Properties of the refresh.

RefreshDone(t) == tasks[t].op = "refresh" /\ tasks[t].pc = "done"

\* C1: a refresh whose current-branch query fails (no workspace folder, or
\* git fails) runs to its end through the catch block, and when it has ended
\* every isOnTopicBranch, isOn<Kind>Branch and <kind>sExist flag is false.
C1_FailedBranchQueryResetsFlags ==
    \A t \in Slots :
        /\ (tasks[t].op = "refresh" /\ tasks[t].pc = "catch") => ENABLED CatchReset(t)
        /\ (RefreshDone(t) /\ (~workspaceOpen \/ ~gitOk)) =>
              \A key \in BranchKeySet \cup ExistKeySet : ctx[key] = FALSE

\* A second refresh has ended after its branch query failed.
C1_Witness ==
    \E t \in Slots :
        RefreshDone(t) /\ tasks[t].seq > 1 /\ tasks[t].failed /\ ~gitOk /\ workspaceOpen

\* C2: no refresh shows a prompt or an error message to the user.
C2_RefreshShowsNothing ==
    \A t \in Slots : tasks[t].op = "refresh" => \A k \in Kinds : ~tasks[t].q[k].asked

\* C3: in a refresh whose branch query succeeds, each kind's <kind>sExist is
\* true iff that kind's own list command succeeded and its output holds a
\* branch line, whatever the other kinds' list commands did.
C3_ListQueriesIndependent ==
    \A t \in Slots :
        (RefreshDone(t) /\ workspaceOpen /\ gitOk) =>
            /\ ~tasks[t].failed
            /\ \A k \in Kinds :
                  ctx[ExistKey(k)] =
                      (/\ installed
                       /\ ~listFails[k]
                       /\ ParseBranchList(ListLines(listStyle, branches[k])) # <<>>)

\* A refresh has ended in which one kind's list command failed and another
\* kind's flag is true.
C3_Witness ==
    \E t \in Slots :
        /\ RefreshDone(t) /\ workspaceOpen /\ gitOk
        /\ \E k, j \in Kinds : listFails[k] /\ branches[k] # <<>> /\ ctx[ExistKey(j)]

\* The value a refresh computed for a key.
Computed(task, key) ==
    IF task.failed THEN FALSE
    ELSE IF key = "isInstalled" THEN task.inst
    ELSE IF key = "isInitialized" THEN task.init
    ELSE IF key \in BranchKeySet THEN BranchFlag(key, task.branch)
    ELSE \E k \in Kinds : key = ExistKey(k) /\ Len(task.q[k].val) > 0

\* C6: once two refreshes have both ended, every flag holds the value the one
\* that started later computed.
C6_LaterRefreshWins ==
    \A a, b \in Slots :
        (RefreshDone(a) /\ RefreshDone(b) /\ tasks[a].seq < tasks[b].seq) =>
            \A key \in ContextKeySet : ctx[key] = Computed(tasks[b], key)

\* C7: a save followed by another within the delay performs no refresh.
C7_SaveRefreshDebounced ==
    \A i, j \in 1..Len(saves) :
        (i < j /\ saves[j].at - saves[i].at < DebounceMs) => ~saves[i].fired

---------------------------------------------------------------------------
\* Properties of the command handlers.

HandlerDone(t) == tasks[t].op \in KindOps \cup GlobalOps /\ tasks[t].pc = "done"

LogOf(t) == tasks[t].log

\* An external command that ran and names a start, finish, delete, rename or
\* checkout.
Mutating(e) ==
    /\ e.ev = "exec"
    /\ e.cmd[Len(e.cmd)] \in {"start", "finish", "delete", "rename", "checkout"}

Refreshes(t) == {j \in DOMAIN LogOf(t) : LogOf(t)[j].ev = "refresh"}

\* C4: when a handler has returned, every start, finish, delete, rename or
\* checkout command of it that succeeded, per kind or shorthand, is followed
\* by a refresh.
C4_TopologyChangeRefreshes ==
    \A t \in Slots :
        HandlerDone(t) =>
            \A i \in DOMAIN LogOf(t) :
                (Mutating(LogOf(t)[i]) /\ LogOf(t)[i].ok) =>
                    \E j \in Refreshes(t) : j > i

\* C5: when a handler has returned and a mutating command of it (continue
\* and abort included) failed, the handler has started exactly one refresh.
C5_FailedCommandRefreshes ==
    \A t \in Slots :
        HandlerDone(t) =>
            \A i \in DOMAIN LogOf(t) :
                (Mutating(LogOf(t)[i]) /\ ~LogOf(t)[i].ok) =>
                    Cardinality(Refreshes(t)) = 1

\* C8: in a start or finish handler, when the start or finish command is
\* issued the write of gitflow.origin (and for finish the write of the kind's
\* deleteRemote) and the resolution of the arguments are already in the log,
\* and every refresh comes after the command; a start handler refreshes only
\* after its command.
C8_StepsSequential ==
    \A t \in Slots :
        tasks[t].op \in {"start", "finish"} =>
            LET log == LogOf(t)
                op == tasks[t].op
                kind == tasks[t].kind
            IN /\ \A i \in DOMAIN log :
                    (log[i].ev = "exec" /\ log[i].cmd = <<kind, op>>) =>
                        /\ \E j \in 1..(i - 1) :
                              log[j].ev = "config" /\ log[j].cmd = <<"gitflow.origin">>
                        /\ op = "finish" =>
                              \E j \in 1..(i - 1) :
                                  /\ log[j].ev = "config"
                                  /\ log[j].cmd = <<"gitflow.branch", kind, "deleteRemote">>
                        /\ \E j \in 1..(i - 1) :
                              log[j].ev = "resolve" /\ log[j].cmd = <<kind, op>>
                        /\ op = "finish" =>
                              \E j \in 1..(i - 1) :
                                  log[j].ev = "resolve" /\ log[j].cmd = <<kind, "tag">>
                        /\ \A j \in Refreshes(t) : j > i
               /\ (op = "start" /\ Refreshes(t) # {}) =>
                    \E i \in DOMAIN log :
                        log[i].ev = "exec" /\ log[i].cmd = <<kind, op>> /\ log[i].ok

\* A finish handler has returned after its command succeeded and its refresh
\* ran.
C8_Witness ==
    \E t \in Slots :
        /\ HandlerDone(t) /\ tasks[t].op = "finish" /\ Refreshes(t) # {}
        /\ \E i \in DOMAIN LogOf(t) :
              /\ LogOf(t)[i].ev = "exec" /\ LogOf(t)[i].ok
              /\ LogOf(t)[i].cmd = <<tasks[t].kind, "finish">>

\* C9: the arguments of a start command are the name, then the trimmed base
\* the user typed if it is not blank, else the configured start point if it
\* is not blank, else nothing, then the fetch flag.
C9_StartPointPrecedence ==
    \A t \in Slots :
        tasks[t].op = "start" =>
            \A i \in DOMAIN LogOf(t) :
                LET e == LogOf(t)[i]
                    base == tasks[t].input.base
                    configured == settings.kind[tasks[t].kind].startPoint
                    expected ==
                        IF base # NoInput /\ Trim(base) # <<>> THEN <<Trim(base)>>
                        ELSE IF Trim(configured) # <<>> THEN <<configured>>
                        ELSE <<>>
                IN (e.ev = "exec" /\ e.cmd = <<tasks[t].kind, "start">>) =>
                      e.args = <<tasks[t].input.name>> \o expected
                               \o (IF settings.fetchBeforeStart
                                   THEN << <<"--fetch">> >> ELSE <<>>)

\* A start command ran with a padded base typed while a start point is
\* configured.
C9_Witness ==
    \E t \in Slots :
        /\ tasks[t].op = "start"
        /\ tasks[t].input.base = <<" ", "y">>
        /\ Trim(settings.kind[tasks[t].kind].startPoint) # <<>>
        /\ \E i \in DOMAIN LogOf(t) : LogOf(t)[i].ev = "exec" /\ LogOf(t)[i].ok

\* C10: a finish or update command that ran while the kind's finishStrategy
\* or updateStrategy setting is merge, rebase or squash takes effect with
\* that strategy, whatever strategy the tool's branch configuration names.
C10_OverrideWins ==
    \A t \in Slots :
        tasks[t].op \in {"finish", "update"} =>
            \A i \in DOMAIN LogOf(t) :
                LET e == LogOf(t)[i]
                    k == tasks[t].kind
                    v == IF tasks[t].op = "finish"
                         THEN settings.kind[k].finishStrategy
                         ELSE settings.kind[k].updateStrategy
                    d == IF tasks[t].op = "finish"
                         THEN gitConfig.upstreamStrategy[k]
                         ELSE gitConfig.downstreamStrategy[k]
                IN (e.ev = "exec" /\ e.ok /\ e.cmd = <<k, tasks[t].op>>
                    /\ v \in {"merge", "rebase", "squash"}) =>
                      EffectiveStrategy(e.args, d) = v

---------------------------------------------------------------------------
\* Properties of the resolved finish and update arguments.

HasFlag(args, word) == \E i \in DOMAIN args : args[i] = <<word>>

FlagsAmong(args, words) == {i \in DOMAIN args : \E w \in words : args[i] = <<w>>}

\* A command line the handler built and passed to executeGitFlowCommand,
\* whether it ran or was refused because the tool is missing.
Built(e, cmd) == e.ev \in {"exec", "refused"} /\ e.cmd = cmd

\* C11: a finish command of a kind whose createTag setting is left at its
\* unset value, while the tool's branch type has tag = true, carries --tag
\* and does not carry --notag.
C11_TagFallsBackToBranchDefault ==
    \A t \in Slots :
        tasks[t].op = "finish" =>
            \A i \in DOMAIN LogOf(t) :
                LET e == LogOf(t)[i]
                    k == tasks[t].kind
                IN (/\ Built(e, <<k, "finish">>)
                    /\ settings.kind[k].createTag = DefaultKindSettings.createTag
                    /\ gitConfig.tag[k]) =>
                      HasFlag(e.args, "--tag") /\ ~HasFlag(e.args, "--notag")

\* C12: every finish command a per-kind finish handler builds carries
\* exactly one of --tag and --notag, whatever the settings are.
C12_TagAxisTotal ==
    \A t \in Slots :
        tasks[t].op = "finish" =>
            \A i \in DOMAIN LogOf(t) :
                LET e == LogOf(t)[i] IN
                Built(e, <<tasks[t].kind, "finish">>) =>
                    Cardinality(FlagsAmong(e.args, {"--tag", "--notag"})) = 1

\* A finish command ran with a tag prefix, a typed tag message and a signing
\* key while the settings ask for a tag.
C12_Witness ==
    \E t \in Slots :
        /\ tasks[t].op = "finish"
        /\ settings.kind[tasks[t].kind].createTag
        /\ \E i \in DOMAIN LogOf(t) :
              LET e == LogOf(t)[i] IN
              /\ e.ev = "exec" /\ e.ok /\ e.cmd = <<tasks[t].kind, "finish">>
              /\ HasFlag(e.args, "--tagprefix") /\ HasFlag(e.args, "--message")
              /\ HasFlag(e.args, "--signingkey")

\* C14: with the strategy, fastForward or keepBranch setting at
\* use-git-config a finish or update command carries no flag of that axis;
\* fastForward no-ff gives --no-ff and ff gives --ff, never both; and
\* --preserve-merges is present exactly when preserveMerges is set.
C14_InheritSentinel ==
    \A t \in Slots :
        tasks[t].op \in {"finish", "update"} =>
            \A i \in DOMAIN LogOf(t) :
                LET e == LogOf(t)[i]
                    op == tasks[t].op
                    s == settings.kind[tasks[t].kind]
                    strategy == IF op = "finish" THEN s.finishStrategy
                                ELSE s.updateStrategy
                IN Built(e, <<tasks[t].kind, op>>) =>
                    /\ strategy = "use-git-config" =>
                          FlagsAmong(e.args, {"--rebase", "--squash", "--merge"}) = {}
                    /\ op = "finish" =>
                          /\ s.fastForward = "use-git-config" =>
                                FlagsAmong(e.args, {"--ff", "--no-ff"}) = {}
                          /\ s.fastForward = "no-ff" =>
                                HasFlag(e.args, "--no-ff") /\ ~HasFlag(e.args, "--ff")
                          /\ s.fastForward = "ff" =>
                                HasFlag(e.args, "--ff") /\ ~HasFlag(e.args, "--no-ff")
                          /\ s.keepBranch = "use-git-config" =>
                                FlagsAmong(e.args, {"--keep", "--keeplocal",
                                                    "--keepremote"}) = {}
                          /\ HasFlag(e.args, "--preserve-merges") <=> s.preserveMerges

\* A finish command ran with fastForward at use-git-config and
\* preserveMerges set.
C14_Witness ==
    \E t \in Slots :
        /\ tasks[t].op = "finish"
        /\ settings.kind[tasks[t].kind].fastForward = "use-git-config"
        /\ settings.kind[tasks[t].kind].preserveMerges
        /\ \E i \in DOMAIN LogOf(t) :
              /\ LogOf(t)[i].ev = "exec" /\ LogOf(t)[i].ok
              /\ LogOf(t)[i].cmd = <<tasks[t].kind, "finish">>

\* C15: a finish command carries at most one of --keep, --keeplocal and
\* --keepremote, the one the keepBranch setting names (none for delete),
\* and carries --force-delete exactly when forceDelete is set.
C15_RetentionAndForceDelete ==
    \A t \in Slots :
        tasks[t].op = "finish" =>
            \A i \in DOMAIN LogOf(t) :
                LET e == LogOf(t)[i]
                    keep == settings.kind[tasks[t].kind].keepBranch
                    kept == FlagsAmong(e.args, {"--keep", "--keeplocal", "--keepremote"})
                IN Built(e, <<tasks[t].kind, "finish">>) =>
                    /\ Cardinality(kept) <= 1
                    /\ keep = "keep" => HasFlag(e.args, "--keep")
                    /\ keep = "keep-local" => HasFlag(e.args, "--keeplocal")
                    /\ keep = "keep-remote" => HasFlag(e.args, "--keepremote")
                    /\ keep = "delete" => kept = {}
                    /\ HasFlag(e.args, "--force-delete") <=> settings.forceDelete

\* A finish command ran with keepBranch at keep-local and forceDelete set.
C15_Witness ==
    \E t \in Slots :
        /\ tasks[t].op = "finish"
        /\ settings.kind[tasks[t].kind].keepBranch = "keep-local"
        /\ settings.forceDelete
        /\ \E i \in DOMAIN LogOf(t) :
              /\ LogOf(t)[i].ev = "exec" /\ LogOf(t)[i].ok
              /\ LogOf(t)[i].cmd = <<tasks[t].kind, "finish">>

\* The flags of a finish command of kind k, axis by axis, as the settings
\* stand.
FinishFlags(k) ==
    LET retention == GetBranchRetentionOptions(k) IN
    [strategy |-> GetMergeStrategy(k, "finish"),
     ff |-> GetFastForwardOptions(k),
     preserve |-> GetPreserveMergesOption(k),
     tag |-> GetTagOptions(k, <<"a">>, <<"m">>),
     retention |-> SelectSeq(retention, LAMBDA x : x # <<"--force-delete">>),
     forceDelete |-> SelectSeq(retention, LAMBDA x : x = <<"--force-delete">>)]

Axes == {"strategy", "ff", "preserve", "tag", "retention", "forceDelete"}

AxisOf(option) ==
    CASE option = "finishStrategy" -> "strategy"
      [] option = "fastForward" -> "ff"
      [] option = "preserveMerges" -> "preserve"
      [] option \in {"createTag", "tagPrefix"} -> "tag"
      [] option = "keepBranch" -> "retention"

\* C13: when the settings before and after a step differ in one finish
\* option of one kind only, the finish flags of every other axis of that
\* kind, and of every axis of every other kind, are the same before and
\* after.
C13_AxesIndependent ==
    [][\A j \in Kinds, option \in FinishOptions :
          (/\ settings' # settings
           /\ settings' = [settings EXCEPT
                              !.kind[j][option] = settings'.kind[j][option]]) =>
             \A k \in Kinds, axis \in Axes :
                (k # j \/ axis # AxisOf(option)) =>
                    FinishFlags(k)'[axis] = FinishFlags(k)[axis]]_vars

\* The finishStrategy of feature alone was edited to rebase while
\* preserveMerges is set, and the finish arguments of feature were resolved
\* with it.
C13_Witness ==
    \E t \in Slots :
        /\ changes = 1
        /\ settings.kind["feature"].finishStrategy = "rebase"
        /\ settings.kind["feature"].preserveMerges
        /\ \A k \in Kinds \ {"feature"} : settings.kind[k].finishStrategy = "merge"
        /\ tasks[t].op = "finish" /\ tasks[t].kind = "feature" /\ tasks[t].pc = "done"
        /\ tasks[t].flags.strategy = Flag("--rebase")
        /\ tasks[t].flags.preserve = Flag("--preserve-merges")

---------------------------------------------------------------------------
\* Properties of the classification of the current branch.

\* A refresh has got past its getCurrentBranch call.
PastGetBranch(t) ==
    /\ tasks[t].op = "refresh"
    /\ tasks[t].pc \in {"setBranch", "lists", "setExist", "catch", "done"}

\* C17: the current branch prefix(k) + n with n not empty, also when n
\* holds a prefix again, is classified as kind k with name n and full name
\* prefix(k) + n; main, master and develop get their own name as name and
\* full name; and every topic result has full name = prefix(kind) + name.
C17_ClassifierRoundTrip ==
    \A t \in Slots :
        (PastGetBranch(t) /\ ~tasks[t].failed) =>
            LET info == tasks[t].branch IN
            /\ \A k \in Kinds :
                  (Len(head) >= 2 /\ head[1] = Prefix(k)) =>
                      info = BranchInfo(k, Tail(head), head)
            /\ head \in {<<"main">>, <<"master">>, <<"develop">>} =>
                  /\ info.name = head /\ info.fullName = head
                  /\ info.type = IF head = <<"develop">> THEN "develop" ELSE "main"
            /\ IsTopic(info.type) =>
                  info.fullName = <<Prefix(info.type)>> \o info.name

\* A refresh classified feature/feature/a, whose name holds the prefix again.
C17_Witness ==
    \E t \in Slots :
        /\ PastGetBranch(t)
        /\ tasks[t].branch = BranchInfo("feature", <<"feature/", "a">>,
                                        <<"feature/", "feature/", "a">>)

\* C19: getCurrentBranch fails exactly without a workspace folder or when
\* the git query fails; otherwise a name that starts with no topic prefix
\* and is none of main, master, develop, the empty name of a detached HEAD
\* included, is classified as unknown with that name as name and full name.
C19_ClassificationTotal ==
    \A t \in Slots :
        PastGetBranch(t) =>
            /\ tasks[t].failed <=> (~workspaceOpen \/ ~gitOk)
            /\ (/\ ~tasks[t].failed
                /\ \A k \in Kinds : head = <<>> \/ head[1] # Prefix(k)
                /\ head \notin {<<"main">>, <<"master">>, <<"develop">>}) =>
                  tasks[t].branch = BranchInfo("unknown", head, head)

\* A refresh has ended that classified the empty name of a detached HEAD.
C19_Witness ==
    \E t \in Slots :
        /\ RefreshDone(t) /\ ~tasks[t].failed
        /\ head = <<>>
        /\ tasks[t].branch = BranchInfo("unknown", <<>>, <<>>)

---------------------------------------------------------------------------
\* Properties of the continue and abort commands.

\* C20: the continue and abort handlers build at most one command, and it
\* is `<kind> finish --continue` (or --abort) for a topic kind; as long as
\* the checked-out branch is the one the handler saw (no finish has been
\* completed by it), that kind is the kind of the checked-out branch, a
\* handler that returned on a topic branch has built the command, and on
\* main, develop or an unknown branch no command is built.
C20_ContinueAbortScoped ==
    \A t \in Slots :
        tasks[t].op \in {"finishContinue", "finishAbort"} =>
            LET log == LogOf(t)
                built == {i \in DOMAIN log : log[i].ev \in {"exec", "refused"}}
                word == IF tasks[t].op = "finishContinue" THEN "--continue"
                        ELSE "--abort"
                current == Classify(BranchStdout)
            IN /\ Cardinality(built) <= 1
               /\ \A i \in built :
                     /\ \E k \in Kinds : log[i].cmd = <<k, "finish">>
                     /\ log[i].args = Flag(word)
               /\ (tasks[t].op = "finishAbort" \/ \A i \in built : ~log[i].ok) =>
                     /\ \A i \in built : log[i].cmd[1] = current.type
                     /\ ~IsTopic(current.type) => built = {}
                     /\ (HandlerDone(t) /\ ~CurrentBranchFails
                         /\ IsTopic(current.type)) => built # {}

\* An abort ran on a release branch, and the handler has returned.
C20_Witness ==
    \E t \in Slots :
        /\ HandlerDone(t) /\ tasks[t].op = "finishAbort"
        /\ head = <<"release/", "a">>
        /\ \E i \in DOMAIN LogOf(t) :
              /\ LogOf(t)[i].ev = "exec" /\ LogOf(t)[i].ok
              /\ LogOf(t)[i].cmd = <<"release", "finish">>
              /\ LogOf(t)[i].args = Flag("--abort")

---------------------------------------------------------------------------
\* Properties of the classification after the setup wizard.

IsPrefixOf(p, s) == Len(p) <= Len(s) /\ SubSeq(s, 1, Len(p)) = p

\* The wizard of task t has stored its eight answers and its refresh has
\* classified the current branch.
ClassifiedAfterSetup(t) ==
    /\ tasks[t].op \in InitCommands
    /\ tasks[t].pc \in {"setBranch", "lists", "setExist", "done"}
    /\ tasks[t].branch # NoBranch
    /\ \E i \in DOMAIN LogOf(t) : LogOf(t)[i].ev = "info" /\ LogOf(t)[i].ok

\* C18: once the wizard has stored the main name, the develop name and the
\* prefixes, the checked-out branch is classified by them: the stored main
\* name as main, the stored develop name as develop, and a stored prefix
\* followed by a name as that kind with that name.
C18_ClassifiesConfiguredNames ==
    \A t \in Slots :
        ClassifiedAfterSetup(t) =>
            LET info == tasks[t].branch IN
            /\ head = gitConfig.master => info.type = "main"
            /\ head = gitConfig.develop => info.type = "develop"
            /\ \A k \in Kinds :
                  LET p == gitConfig.prefix[k] IN
                  (IsPrefixOf(p, head) /\ Len(head) > Len(p)) =>
                      info = BranchInfo(k, SubSeq(head, Len(p) + 1, Len(head)), head)

---------------------------------------------------------------------------
\* Properties of the shorthand commands.

\* C21: when "Finish Current Branch" issues its command on a checked-out
\* branch of kind k with short name n, the command is `<k> finish` with n as
\* its only argument.
C21_ShorthandFinishKindSpecific ==
    [][\A t \in Slots :
         LET cur == Classify(BranchStdout) IN
         (/\ tasks[t].op = "shorthandFinish"
          /\ tasks[t].pc = "exec"
          /\ tasks'[t].pc # "exec"
          /\ ~CurrentBranchFails
          /\ cur.type \in Kinds) =>
             \A i \in DOMAIN tasks'[t].log :
                 tasks'[t].log[i].ev = "exec" =>
                     /\ tasks'[t].log[i].cmd = <<cur.type, "finish">>
                     /\ tasks'[t].log[i].args = <<cur.name>>]_vars

---------------------------------------------------------------------------
\* The tool is missing: commands are invoked one after the other, in one
\* repository folder or another.

\* A handler has returned and its slot takes the next command.
Return(t) ==
    /\ tasks[t].pc = "done"
    /\ tasks' = [tasks EXCEPT ![t] = IdleTask]
    /\ UNCHANGED <<envVars, ctx, timers, saves, now, changes>>

\* The user opens another repository folder between two commands.
OpenRepository ==
    /\ \A t \in Slots : tasks[t].pc = "idle"
    /\ \E i \in DOMAIN RepoPaths :
         /\ RepoPaths[i] # repoPath
         /\ repoPath' = RepoPaths[i]
    /\ workspaceOpen' = TRUE
    /\ UNCHANGED <<installed, gitOk, initialized, declined, isMac, head, branches,
                   baseBranches, listStyle, listFails, settings, gitConfig,
                   ctx, tasks, timers, saves, now, changes>>

InitInstall ==
    /\ installed = FALSE
    /\ workspaceOpen \in BOOLEAN
    /\ gitOk = TRUE
    /\ initialized = TRUE
    /\ repoPath = RepoPaths[1]
    /\ declined = {}
    /\ isMac \in BOOLEAN
    /\ head \in {<<"develop">>, <<Prefix("feature"), "a">>}
    /\ branches = OneBranchEach
    /\ baseBranches = DefaultBaseBranches
    /\ listStyle = "plain"
    /\ listFails = [k \in Kinds |-> FALSE]
    /\ settings = DefaultSettings
    /\ gitConfig = DefaultGitConfig
    /\ ctx = SettledContext
    /\ tasks = [t \in {1} |-> IdleTask]
    /\ timers = {}
    /\ saves = <<>>
    /\ now = 0
    /\ changes = 0

NextInstall ==
    \/ \E t \in Slots : Invoke(t)
    \/ \E t \in Slots : ConfigureRemote(t)
    \/ \E t \in Slots : ConfigureDeleteRemote(t)
    \/ \E t \in Slots : Resolve(t)
    \/ \E t \in Slots : HandlerGetBranch(t)
    \/ \E t \in Slots : HandlerList(t)
    \/ \E t \in Slots : TagOptions(t)
    \/ \E t \in Slots : Exec(t)
    \/ \E t \in Slots : Return(t)
    \/ OpenRepository

SpecInstall == InitInstall /\ [][NextInstall]_vars

\* The events a step appends to the log of task t.
NewEvents(t) ==
    {tasks'[t].log[i] : i \in (Len(tasks[t].log) + 1)..Len(tasks'[t].log)}

\* C22: the declined list never loses a repository, and "Not Now" puts the
\* open repository on it.  While the tool is missing and the open repository
\* is on the list, a handler shows no install prompt and runs no git-flow
\* command, and its call of executeGitFlowCommand is refused; in a
\* repository that is not on the list the refusal comes with the prompt.
C22_InstallRefusalRemembered ==
    [][/\ declined \subseteq declined'
       /\ \A t \in Slots :
            \A e \in NewEvents(t) :
               /\ (e.ev = "prompt" /\ e.args = Flag("Not Now") /\ workspaceOpen)
                     => repoPath \in declined'
               /\ (~installed /\ workspaceOpen /\ repoPath \in declined)
                     => e.ev \notin {"prompt", "exec"}
               /\ (~installed /\ workspaceOpen /\ repoPath \notin declined
                   /\ e.ev = "refused")
                     => \E p \in NewEvents(t) : p.ev = "prompt"
       /\ \A t \in Slots :
            (/\ ~installed /\ workspaceOpen /\ repoPath \in declined
             /\ tasks[t].pc \in {"list", "exec"} /\ tasks'[t].pc # tasks[t].pc) =>
                /\ tasks'[t].pc = "done"
                /\ \E e \in NewEvents(t) : e.ev = "refused"]_vars

\* "Not Now" was answered in both repositories, the first one is open again
\* and a command was refused there without a prompt.
C22_Witness ==
    /\ ~installed /\ workspaceOpen
    /\ repoPath = RepoPaths[1]
    /\ declined = {RepoPaths[1], RepoPaths[2]}
    /\ \E t \in Slots :
         /\ \E i \in DOMAIN LogOf(t) : LogOf(t)[i].ev = "refused"
         /\ \A i \in DOMAIN LogOf(t) : LogOf(t)[i].ev # "prompt"

---------------------------------------------------------------------------
\* The catch block of executeGitFlowCommand alone: a command fails with one
\* failure text after the other, for a caller that shows errors and for one
\* that does not.

\* Longest failure text, in tokens.
MaxFailure == 5

FailureTexts == TextsUpTo(FailureAlphabet, MaxFailure)

\* The command handlers leave showError at its default; getBranchList
\* switches it off.
Callers == {"handler", "getBranchList"}
ShowError(caller) == caller = "handler"

\* A call of executeGitFlowCommand whose external command fails; the caller
\* catches what the call throws.
CommandFails(t) ==
    /\ tasks[t].pc = "idle"
    /\ \E caller \in Callers, failure \in FailureTexts :
         LET cmd == <<"feature", "list">>
             r == ExecuteGitFlowCommand(cmd, <<>>, FALSE, "dismissed",
                                        ShowError(caller), failure)
         IN tasks' = [tasks EXCEPT ![t] =
               [IdleTask EXCEPT
                   !.op = caller, !.pc = "done", !.failed = r.status = "failed",
                   !.log = r.events
                           \o <<Event("throw", cmd, <<r.thrown>>, FALSE, "handler")>>]]
    /\ UNCHANGED <<envVars, ctx, timers, saves, now, changes>>

InitFailure ==
    /\ installed = TRUE
    /\ workspaceOpen = TRUE
    /\ gitOk = TRUE
    /\ initialized = TRUE
    /\ repoPath = RepoPaths[1]
    /\ declined = {}
    /\ isMac = FALSE
    /\ head = <<"develop">>
    /\ branches = OneBranchEach
    /\ baseBranches = DefaultBaseBranches
    /\ listStyle = "plain"
    /\ listFails = [k \in Kinds |-> FALSE]
    /\ settings = DefaultSettings
    /\ gitConfig = DefaultGitConfig
    /\ ctx = SettledContext
    /\ tasks = [t \in {1} |-> IdleTask]
    /\ timers = {}
    /\ saves = <<>>
    /\ now = 0
    /\ changes = 0

NextFailure ==
    \/ \E t \in Slots : CommandFails(t)
    \/ \E t \in Slots : Return(t)

SpecFailure == InitFailure /\ [][NextFailure]_vars

\* The failure text the caller of task t caught.
Caught(t) == LogOf(t)[Len(LogOf(t))].args[1]

\* The messages task t showed as errors.
Shown(t) == {LogOf(t)[i].args[1] : i \in {j \in DOMAIN LogOf(t) : LogOf(t)[j].ev = "error"}}

NoNewline(s) == \A i \in DOMAIN s : s[i] # "\n"

\* m is the text after the first `Error: <message>` marker of s up to the
\* end of that line.
AfterFirstMarker(s, m) ==
    \E i \in 1..Len(s) :
        /\ MarkerAt(s, i)
        /\ \A j \in 1..(i - 1) : ~MarkerAt(s, j)
        /\ \E n \in 1..(Len(s) - i) :
              /\ m = SubSeq(s, i + 1, i + n)
              /\ NoNewline(m)
              /\ i + n = Len(s) \/ s[i + n + 1] = "\n"

\* rest is s without a leading `Command failed: <cmdline>` line.
AfterCommandFailed(s, rest) ==
    IF Len(s) >= 2 /\ s[1] = "Command failed: " /\ s[2] # "\n"
    THEN \E n \in 2..Len(s) :
            /\ NoNewline(SubSeq(s, 1, n))
            /\ \/ n = Len(s) /\ rest = <<>>
               \/ n < Len(s) /\ s[n + 1] = "\n" /\ rest = SubSeq(s, n + 2, Len(s))
    ELSE rest = s

\* m is the message the failure text s surfaces.
Surfaces(s, m) ==
    IF \E i \in 1..Len(s) : MarkerAt(s, i)
    THEN AfterFirstMarker(s, m)
    ELSE \E k \in 0..Len(s) :
            /\ AfterCommandFailed(s, SubSeq(s, k + 1, Len(s)))
            /\ m = Trim(SubSeq(s, k + 1, Len(s)))

\* C23: when a command failed, the caller caught the original failure text;
\* with showError and a non-empty message exactly one error is shown, the
\* text after the first `Error: <message>` marker up to the end of its line
\* or, without a marker, the trimmed text without its leading `Command
\* failed: <cmdline>` line; otherwise no error is shown.
C23_FailureMessage ==
    \A t \in Slots :
        (tasks[t].op \in Callers /\ tasks[t].pc = "done") =>
            /\ tasks[t].failed
            /\ Caught(t) \in FailureTexts
            /\ \A m \in Shown(t) : ShowError(tasks[t].op) /\ m # <<>> /\ Surfaces(Caught(t), m)
            /\ Cardinality({i \in DOMAIN LogOf(t) : LogOf(t)[i].ev = "error"}) <= 1
            /\ (ShowError(tasks[t].op) /\ ~Surfaces(Caught(t), <<>>)) => Shown(t) # {}

\* A failure text that ends a line right after `Error: ` and has a marker with
\* a message further on was shown as that message.
C23_Witness ==
    \E t \in Slots :
        /\ tasks[t].op = "handler" /\ tasks[t].pc = "done"
        /\ \E i, j \in DOMAIN Caught(t) :
              /\ i < j
              /\ Caught(t)[i] = "Error: " /\ ~MarkerAt(Caught(t), i)
              /\ MarkerAt(Caught(t), j)
        /\ Shown(t) # {}

---------------------------------------------------------------------------
\* Properties of the per-kind handlers that list, pick and confirm.

\* The list command of the handler of task t ran and succeeded.
Listed(t) ==
    \E i \in DOMAIN LogOf(t) :
        /\ LogOf(t)[i].ev = "exec" /\ LogOf(t)[i].ok
        /\ LogOf(t)[i].cmd = <<tasks[t].kind, "list">>

\* An external command that changes the repository was built: it ran, failed
\* or was refused.
BuiltMutating(e) == Mutating([e EXCEPT !.ev = "exec"]) /\ e.ev \in {"exec", "refused"}

\* C24: a checkout, a delete or a finish away from the kind's branches whose
\* list command found no branch of the kind has returned right after the
\* list: it built no command that changes the repository, showed no error
\* and did not fail; it told the user that there are no branches.
C24_NoBranchesIsNoOp ==
    \A t \in Slots :
        (/\ tasks[t].op \in {"checkout", "delete", "finish"}
         /\ Listed(t)
         /\ branches[tasks[t].kind] = <<>>
         /\ \A i \in DOMAIN LogOf(t) : ~(Mutating(LogOf(t)[i]) /\ LogOf(t)[i].ok)) =>
            /\ tasks[t].pc = "done"
            /\ ~tasks[t].failed
            /\ \A i \in DOMAIN LogOf(t) :
                  /\ ~BuiltMutating(LogOf(t)[i])
                  /\ LogOf(t)[i].ev \notin {"error", "refresh"}
            /\ LogOf(t)[Len(LogOf(t))].ev = "info"

\* The tool answered the list command of a finish with its "No <kind>
\* branches" line and the handler returned with the message.
C24_Witness ==
    \E t \in Slots :
        /\ tasks[t].op = "finish" /\ tasks[t].pc = "done"
        /\ Listed(t)
        /\ listStyle = "message"
        /\ branches[tasks[t].kind] = <<>>
        /\ LogOf(t)[Len(LogOf(t))].ev = "info"

---------------------------------------------------------------------------
\* Frame of the refresh.

\* C25: a step of a refresh leaves the repository (the checked-out branch and
\* the branches), the stored gitflow configuration and the extension's
\* stored state (the declined list) as they are.
C25_RefreshOnlyPublishes ==
    [][\A t \in Slots :
         (tasks[t].op = "refresh" /\ tasks'[t] # tasks[t]) =>
            /\ head' = head
            /\ branches' = branches
            /\ baseBranches' = baseBranches
            /\ gitConfig' = gitConfig
            /\ declined' = declined]_vars

---------------------------------------------------------------------------
\* Properties of the finish handlers' use of the autoUpdate setting.

\* The update command of kind k in the log of task t, before entry i.
UpdatedBefore(t, k, i) ==
    \E j \in 1..(i - 1) : LogOf(t)[j].ev = "exec" /\ LogOf(t)[j].cmd = <<k, "update">>

\* C26: when a per-kind finish handler has issued its finish command, the
\* update command of the kind was issued before it if the kind's autoUpdate
\* setting is on, and no update command was issued if it is off.
C26_AutoUpdateBeforeFinish ==
    \A t \in Slots :
        tasks[t].op = "finish" =>
            \A i \in DOMAIN LogOf(t) :
                (LogOf(t)[i].ev = "exec" /\ LogOf(t)[i].cmd = <<tasks[t].kind, "finish">>) =>
                    IF ShouldAutoUpdate(tasks[t].kind)
                    THEN UpdatedBefore(t, tasks[t].kind, i)
                    ELSE ~UpdatedBefore(t, tasks[t].kind, Len(LogOf(t)) + 1)

---------------------------------------------------------------------------
\* Properties of the state a start publishes.

\* The start command of task t ran and succeeded for the name the user
\* typed, and the user chose no custom base.
Started_NoBase(t) ==
    /\ tasks[t].op = "start"
    /\ tasks[t].input.base = NoInput
    /\ \E i \in DOMAIN LogOf(t) :
          /\ LogOf(t)[i].ev = "exec" /\ LogOf(t)[i].ok
          /\ LogOf(t)[i].cmd = <<tasks[t].kind, "start">>
          /\ LogOf(t)[i].args[1] = tasks[t].input.name

---------------------------------------------------------------------------
\* Properties of the delete handlers.

\* C28: a delete command is built only by a delete handler whose
\* confirmation was answered "Yes": per kind for the branch picked from the
\* list, shorthand on a checked-out topic branch.  After "No", a dismissal
\* or a cancelled quick pick, and on main, develop or an unknown branch, the
\* log holds no delete command.
C28_DeleteNeedsConfirmation ==
    \A t \in Slots :
        \A i \in DOMAIN LogOf(t) :
            LET e == LogOf(t)[i] IN
            (e.ev \in {"exec", "refused"} /\ e.cmd[Len(e.cmd)] = "delete") =>
                /\ tasks[t].op \in {"delete", "shorthandDelete"}
                /\ tasks[t].input.confirm = "Yes"
                /\ tasks[t].op = "delete" =>
                      /\ tasks[t].input.pick
                      /\ e.cmd = <<tasks[t].kind, "delete">>
                      /\ e.args = <<tasks[t].sel>>
                /\ tasks[t].op = "shorthandDelete" =>
                      /\ e.cmd = <<"delete">>
                      /\ tasks[t].branch.type \in Kinds

\* A per-kind delete ran after "Yes" and the branch is gone.
C28_Witness ==
    \E t \in Slots :
        /\ tasks[t].op = "delete" /\ tasks[t].input.confirm = "Yes"
        /\ \E i \in DOMAIN LogOf(t) :
              /\ LogOf(t)[i].ev = "exec" /\ LogOf(t)[i].ok
              /\ LogOf(t)[i].cmd = <<tasks[t].kind, "delete">>
        /\ ~Has(branches[tasks[t].kind], tasks[t].sel)

---------------------------------------------------------------------------
\* Properties of the rename and update handlers.

---------------------------------------------------------------------------
\* Properties of the assembled command lines.

\* The arguments of a finish for the target, from the settings: strategy,
\* fast-forward, preserve-merges, tag group, retention group.
FinishArguments(k, target, tagMessage) ==
    <<target>> \o GetMergeStrategy(k, "finish") \o GetFastForwardOptions(k)
    \o GetPreserveMergesOption(k) \o GetTagOptions(k, target, tagMessage)
    \o GetBranchRetentionOptions(k)

\* args is a start's argument list: the name, at most one start point (the
\* typed base or else the configured one), then --fetch iff fetchBeforeStart.
StartArguments(k, name, base, args) ==
    \E point \in {BaseArgs(base), GetStartPoint(k)} :
        /\ Len(point) <= 1
        /\ BaseArgs(base) # <<>> => point = BaseArgs(base)
        /\ args = <<name>> \o point
                  \o (IF settings.fetchBeforeStart THEN Flag("--fetch") ELSE <<>>)

\* C30: every command a per-kind handler builds is `<kind> <action>`; a list
\* has no argument, every other command has its target as first argument,
\* and the flags follow in the fixed order: for a finish strategy,
\* fast-forward, preserve-merges, tag group, retention group; for a start at
\* most one start point, then --fetch exactly when fetchBeforeStart is set.
C30_CommandAssembly ==
    \A t \in Slots :
        tasks[t].op \in KindOps =>
            \A i \in DOMAIN LogOf(t) :
                LET e == LogOf(t)[i]
                    k == tasks[t].kind
                IN e.ev \in {"exec", "refused"} =>
                      /\ Len(e.cmd) = 2 /\ e.cmd[1] = k
                      /\ e.cmd[2] \in {tasks[t].op, "list"}
                      /\ e.cmd[2] = "list" => e.args = <<>>
                      /\ e.cmd[2] = "finish" =>
                            e.args = FinishArguments(k, tasks[t].sel, tasks[t].input.tagMessage)
                      /\ e.cmd[2] = "start" =>
                            StartArguments(k, tasks[t].input.name, tasks[t].input.base, e.args)
                      /\ e.cmd[2] \in {"checkout", "delete"} => e.args = <<tasks[t].sel>>
                      /\ e.cmd[2] \in {"rename", "update"} =>
                            e.args # <<>> /\ e.args[1] = tasks[t].branch.name

\* A finish command ran with its target first, a fast-forward flag and
\* behind it the flags of the tag group.
C30_Witness ==
    \E t \in Slots :
        /\ tasks[t].op = "finish"
        /\ \E i \in DOMAIN LogOf(t) :
              LET e == LogOf(t)[i] IN
              /\ e.ev = "exec" /\ e.ok /\ e.cmd = <<tasks[t].kind, "finish">>
              /\ e.args[1] = tasks[t].sel
              /\ e.args[2] = <<"--no-ff">>
              /\ e.args[3] = <<"--tag">>
              /\ Len(e.args) > 3

\* The positions of --message in an argument list.
MessageAt(args) == {i \in DOMAIN args : args[i] = <<"--message">>}

\* The message box of task t returned a text that is not blank once trimmed.
MessageEntered(t) ==
    /\ tasks[t].input.tagMessage # NoInput
    /\ Trim(tasks[t].input.tagMessage) # <<>>

\* C31: a finish command carries --message exactly when the kind's createTag
\* and promptForTagMessage are set, the target name is not empty and the
\* message the user entered is not blank after trimming; it then carries it
\* once, followed by the trimmed message. A dismissed or blank message leaves
\* the finish command without --message.
C31_TagMessageGating ==
    \A t \in Slots :
        tasks[t].op = "finish" =>
            \A i \in DOMAIN LogOf(t) :
                LET e == LogOf(t)[i]
                    gate == /\ settings.kind[tasks[t].kind].createTag = TRUE
                            /\ settings.promptForTagMessage
                            /\ tasks[t].sel # <<>>
                            /\ MessageEntered(t)
                IN Built(e, <<tasks[t].kind, "finish">>) =>
                      /\ MessageAt(e.args) # {} <=> gate
                      /\ gate =>
                            /\ Cardinality(MessageAt(e.args)) = 1
                            /\ \A j \in MessageAt(e.args) :
                                  /\ j < Len(e.args)
                                  /\ e.args[j + 1] = Trim(tasks[t].input.tagMessage)

\* A finish ran with a trimmed message that was typed with a trailing blank.
C31_Witness ==
    \E t \in Slots :
        /\ tasks[t].op = "finish"
        /\ tasks[t].input.tagMessage = <<"m", " ">>
        /\ \E i \in DOMAIN LogOf(t) :
              LET e == LogOf(t)[i] IN
              /\ e.ev = "exec" /\ e.ok /\ e.cmd = <<tasks[t].kind, "finish">>
              /\ \E j \in MessageAt(e.args) : e.args[j + 1] = <<"m">>

\* The handlers that query the checked-out branch before a command that
\* changes the repository.
QueryingHandlers ==
    {"finish", "rename", "update", "shorthandDelete", "shorthandRename",
     "finishContinue", "finishAbort"}

\* The positions in the log of task t where the handler resolved flags.
Resolutions(t, what) ==
    {j \in DOMAIN LogOf(t) :
        LogOf(t)[j].ev = "resolve" /\ LogOf(t)[j].cmd = <<tasks[t].kind, what>>}

\* C32: while the query for the checked-out branch fails, a per-kind finish,
\* rename or update and a shorthand delete, rename, continue or abort builds
\* no git-flow command and starts no refresh; and every finish command is
\* preceded in its handler by the resolution of the strategy, fast-forward,
\* preserve-merges and retention flags and of the tag flags.
C32_ClassificationFailureAborts ==
    \A t \in Slots :
        /\ tasks[t].op \in QueryingHandlers /\ CurrentBranchFails =>
              /\ \A i \in DOMAIN LogOf(t) :
                    LogOf(t)[i].ev \notin {"exec", "refused", "refresh"}
              /\ tasks[t].pc \in {"configureRemote", "configureDeleteRemote",
                                  "resolve", "branch", "done"}
        /\ tasks[t].op = "finish" =>
              \A i \in DOMAIN LogOf(t) :
                  Built(LogOf(t)[i], <<tasks[t].kind, "finish">>) =>
                      /\ \E j \in Resolutions(t, "finish") : j < i
                      /\ \E j \in Resolutions(t, "tag") : j < i
                      /\ \A j \in Resolutions(t, "finish") \cup Resolutions(t, "tag") :
                            j < i

\* A finish on its own branch returned after a failed query for the
\* checked-out branch.
C32_Witness ==
    \E t \in Slots :
        /\ tasks[t].op = "finish" /\ tasks[t].pc = "done"
        /\ CurrentBranchFails /\ installed
        /\ head = <<Prefix(tasks[t].kind), "a">>
        /\ \E i \in DOMAIN LogOf(t) : LogOf(t)[i].ev = "resolve"

\* No refresh is between its first probe and its last write.
NoRefreshInFlight ==
    \A t \in Slots : tasks[t].op = "refresh" => tasks[t].pc = "done"

\* The kinds whose isOn<Kind>Branch flag is published as true.
KindsOn == {k \in Kinds : ctx[OnKey(k)]}

\* C33: whenever no refresh is in flight, at most one of the five
\* isOn<Kind>Branch flags is true and isOnTopicBranch is true exactly when
\* one of them is, also after refreshes that overlapped while the checked-out
\* branch changed.
C33_BranchFlagsConsistent ==
    NoRefreshInFlight =>
        /\ Cardinality(KindsOn) <= 1
        /\ ctx["isOnTopicBranch"] <=> KindsOn # {}

\* C34: when a refresh that ran alone has ended, isInstalled and
\* isInitialized hold what its own two probes returned, whether or not its
\* query for the checked-out branch succeeded.
C34_ProbeFlagsPublished ==
    \A t \in Slots :
        RefreshDone(t) =>
            /\ ctx["isInstalled"] = tasks[t].inst
            /\ ctx["isInitialized"] = tasks[t].init

\* The branches a per-kind checkout, delete or finish handler offers for the
\* output the kind's list command gives now.
Selectable(k) == ParseHandlerList(ListLines(listStyle, branches[k]))

\* C35: when the last refresh has ended and its list command of a kind succeeded, the
\* kind's existence flag is true exactly when a handler parsing the same
\* output finds a branch to select, whatever the output's layout: header
\* lines, a "No <kind> branches" message, blank lines, branch lines.
C35_ExistFlagMatchesHandlerView ==
    (NoRefreshInFlight /\ ~CurrentBranchFails /\ IsGitFlowNextInstalled) =>
        \A k \in Kinds :
            ~listFails[k] => (ctx[ExistKey(k)] <=> Selectable(k) # <<>>)

---------------------------------------------------------------------------
\* The tree view: GitFlowTreeDataProvider.getChildren, called by the editor
\* for the root and for each root category the user expands. Labels and
\* branch types are texts of one character per token.

\* The labels of the five root items, in the order getChildren returns them.
RootLabels ==
    << <<"F", "e", "a", "t", "u", "r", "e", "s">>,
       <<"R", "e", "l", "e", "a", "s", "e", "s">>,
       <<"H", "o", "t", "f", "i", "x", "e", "s">>,
       <<"B", "u", "g", "f", "i", "x", "e", "s">>,
       <<"S", "u", "p", "p", "o", "r", "t">> >>

\* The category shown for each kind.
CategoryLabel(k) ==
    CASE k = "feature" -> RootLabels[1]
      [] k = "release" -> RootLabels[2]
      [] k = "hotfix" -> RootLabels[3]
      [] k = "bugfix" -> RootLabels[4]
      [] k = "support" -> RootLabels[5]

\* The kind's name as the tool's command line spells it.
KindName(k) ==
    CASE k = "feature" -> <<"f", "e", "a", "t", "u", "r", "e">>
      [] k = "release" -> <<"r", "e", "l", "e", "a", "s", "e">>
      [] k = "hotfix" -> <<"h", "o", "t", "f", "i", "x">>
      [] k = "bugfix" -> <<"b", "u", "g", "f", "i", "x">>
      [] k = "support" -> <<"s", "u", "p", "p", "o", "r", "t">>

\* String.prototype.toLowerCase on the letters the labels use.
ToLowerCase(s) ==
    [i \in DOMAIN s |->
        CASE s[i] = "F" -> "f" [] s[i] = "R" -> "r" [] s[i] = "H" -> "h"
          [] s[i] = "B" -> "b" [] s[i] = "S" -> "s" [] OTHER -> s[i]]

\* replace(/s$/, ''): one trailing 's' is removed.
RemoveTrailingS(s) ==
    IF s # <<>> /\ s[Len(s)] = "s" THEN SubSeq(s, 1, Len(s) - 1) ELSE s

\* const branchType = element.label.toLowerCase().replace(/s$/, '')
BranchTypeOf(label) == RemoveTrailingS(ToLowerCase(label))

\* `git-flow-next.${branchType}.checkout`
CheckoutCommandId(branchType) == <<"git-flow-next.">> \o branchType \o <<".checkout">>

\* The checkout commands among context.subscriptions.
RegisteredCheckoutCommands == {CheckoutCommandId(KindName(k)) : k \in Kinds}

\* The provider's own getBranchList: `git flow <type> list` run in the
\* workspace folder; the tool has a list command for its five kinds only,
\* and a failing command gives [].
TreeListRuns(branchType) ==
    /\ workspaceOpen
    /\ \E k \in Kinds : KindName(k) = branchType /\ ~listFails[k]

TreeBranchList(branchType) ==
    IF TreeListRuns(branchType)
    THEN LET k == CHOOSE j \in Kinds : KindName(j) = branchType
         IN ParseBranchList(ListLines(listStyle, branches[k]))
    ELSE <<>>

\* The items getChildren returns for a category: one per branch with its
\* click command, or the single item without a command.
TreeItems(branchType) ==
    LET list == TreeBranchList(branchType) IN
    IF list = <<>>
    THEN << Event("item", <<"empty">>, <<>>, TRUE, "tree") >>
    ELSE [i \in DOMAIN list |->
            Event("item", <<"branch">>, <<list[i], CheckoutCommandId(branchType)>>,
                  TRUE, "tree")]

\* The editor asks for the children of the root (element <<>>) or of a root
\* category.
GetChildren(t, element) ==
    /\ Free(t)
    /\ tasks' = [tasks EXCEPT ![t] =
          [IdleTask EXCEPT !.op = "tree", !.sel = element, !.pc = "treeInstalled"]]
    /\ UNCHANGED <<envVars, ctx, timers, saves, now, changes>>

\* const isInstalled = await this.isGitFlowNextInstalled()
TreeProbeInstalled(t) ==
    /\ tasks[t].pc = "treeInstalled"
    /\ tasks' = [tasks EXCEPT ![t] =
          IF IsGitFlowNextInstalled
          THEN [@ EXCEPT !.inst = TRUE, !.pc = "treeInitialized"]
          ELSE [@ EXCEPT !.pc = "done"]]
    /\ UNCHANGED <<envVars, ctx, timers, saves, now, changes>>

\* const isInitialized = await this.isGitFlowInitialized(); the root's
\* children are returned without a further query.
TreeProbeInitialized(t) ==
    /\ tasks[t].pc = "treeInitialized"
    /\ tasks' = [tasks EXCEPT ![t] =
          IF ~IsGitFlowInitialized THEN [@ EXCEPT !.pc = "done"]
          ELSE IF @.sel = <<>>
          THEN [@ EXCEPT !.init = TRUE, !.pc = "done",
                         !.log = [i \in DOMAIN RootLabels |->
                                    Event("item", <<"category">>, <<RootLabels[i]>>,
                                          TRUE, "tree")]]
          ELSE [@ EXCEPT !.init = TRUE, !.pc = "treeList"]]
    /\ UNCHANGED <<envVars, ctx, timers, saves, now, changes>>

\* const branches = await this.getBranchList(branchType) and the items made
\* of it.
TreeList(t) ==
    /\ tasks[t].pc = "treeList"
    /\ LET branchType == BranchTypeOf(tasks[t].sel) IN
       tasks' = [tasks EXCEPT ![t] =
          [@ EXCEPT !.pc = "done",
                    !.log = << Event("exec", <<"list">>, <<branchType>>,
                                     TreeListRuns(branchType), "tree") >>
                            \o TreeItems(branchType)]]
    /\ UNCHANGED <<envVars, ctx, timers, saves, now, changes>>

InitTree ==
    /\ installed \in BOOLEAN
    /\ workspaceOpen \in BOOLEAN
    /\ gitOk = TRUE
    /\ initialized \in BOOLEAN
    /\ repoPath = RepoPaths[1]
    /\ declined = {}
    /\ isMac = FALSE
    /\ head = <<"develop">>
    /\ branches \in {[k \in Kinds |-> l] : l \in BranchLists}
    /\ baseBranches = DefaultBaseBranches
    /\ listStyle \in ListStyles
    /\ listFails \in {[k \in Kinds |-> FALSE], [k \in Kinds |-> k = "feature"]}
    /\ settings = DefaultSettings
    /\ gitConfig = DefaultGitConfig
    /\ ctx = SettledContext
    /\ tasks = [t \in {1} |-> IdleTask]
    /\ timers = {}
    /\ saves = <<>>
    /\ now = 0
    /\ changes = 0

NextTree ==
    \/ \E t \in Slots, i \in DOMAIN RootLabels : GetChildren(t, RootLabels[i])
    \/ \E t \in Slots : GetChildren(t, <<>>)
    \/ \E t \in Slots : TreeProbeInstalled(t)
    \/ \E t \in Slots : TreeProbeInitialized(t)
    \/ \E t \in Slots : TreeList(t)

SpecTree == InitTree /\ [][NextTree]_vars

\* getChildren of task t has returned.
TreeDone(t) == tasks[t].op = "tree" /\ tasks[t].pc = "done"

\* The items getChildren of task t returned.
ItemsOf(t) == {i \in DOMAIN LogOf(t) : LogOf(t)[i].ev = "item"}

\* C36: the children of each root category come from `git flow <kind> list`
\* of the category's kind, every branch item's click command is a registered
\* git-flow-next.<kind>.checkout command, and getChildren returns nothing
\* when the tool is not installed or git-flow is not initialized.
C36_TreeKindMapping ==
    \A t \in Slots :
        TreeDone(t) =>
            /\ (~IsGitFlowNextInstalled \/ ~IsGitFlowInitialized) => ItemsOf(t) = {}
            /\ \A k \in Kinds :
                  (/\ tasks[t].sel = CategoryLabel(k)
                   /\ IsGitFlowNextInstalled /\ IsGitFlowInitialized) =>
                      /\ \E i \in DOMAIN LogOf(t) :
                            /\ LogOf(t)[i].ev = "exec"
                            /\ LogOf(t)[i].args = <<KindName(k)>>
                      /\ \A i \in ItemsOf(t) :
                            LogOf(t)[i].cmd = <<"branch">> =>
                                LogOf(t)[i].args[2] \in RegisteredCheckoutCommands

\* The positions of a flag in an argument list.
FlagAt(args, word) == {i \in DOMAIN args : args[i] = <<word>>}

Occurs(args, word) == FlagAt(args, word) # {}

\* The flags of the tag group.
TagGroup == {"--tag", "--notag", "--tagprefix", "--message", "--sign", "--signingkey"}

\* A value that is neither empty nor made of blanks only.
NonBlank(text) == \E i \in DOMAIN text : text[i] # " "

\* Every occurrence of the flag is followed by a non-blank value.
HasValue(args, word) ==
    \A i \in FlagAt(args, word) : i < Len(args) /\ NonBlank(args[i + 1])

\* C37: in the arguments of every finish command a handler builds,
\* --tagprefix, --message, --sign and --signingkey occur only with --tag,
\* --signingkey occurs only with --sign, each of --tagprefix, --message and
\* --signingkey is directly followed by a non-blank value, and --notag is the
\* only flag of the tag group when it occurs.
C37_TagFlagCoherence ==
    \A t \in Slots :
        tasks[t].op = "finish" =>
            \A i \in DOMAIN LogOf(t) :
                LET e == LogOf(t)[i] IN
                Built(e, <<tasks[t].kind, "finish">>) =>
                    /\ \A w \in {"--tagprefix", "--message", "--sign", "--signingkey"} :
                          Occurs(e.args, w) => Occurs(e.args, "--tag")
                    /\ Occurs(e.args, "--signingkey") => Occurs(e.args, "--sign")
                    /\ \A w \in {"--tagprefix", "--message", "--signingkey"} :
                          HasValue(e.args, w)
                    /\ Occurs(e.args, "--notag") =>
                          \A w \in TagGroup \ {"--notag"} : ~Occurs(e.args, w)

\* A finish ran with the whole tag group: --tag, a prefix, a message, --sign
\* and a signing key.
C37_Witness ==
    \E t \in Slots :
        /\ tasks[t].op = "finish"
        /\ \E i \in DOMAIN LogOf(t) :
              LET e == LogOf(t)[i] IN
              /\ e.ev = "exec" /\ e.ok /\ e.cmd = <<tasks[t].kind, "finish">>
              /\ \A w \in TagGroup \ {"--notag"} : Occurs(e.args, w)

\* The configuration keys the init run of task t has written.
KeysWritten(t) ==
    {i \in DOMAIN LogOf(t) : LogOf(t)[i].ev = "config" /\ LogOf(t)[i].ok}

\* C38: an init run that has ended has written all eight gitflow keys or
\* none; and when an input was cancelled or left empty or a write failed, it
\* has written no key and created no develop branch.
C38_InitAllOrNothing ==
    \A t \in Slots :
        (tasks[t].op \in InitCommands /\ tasks[t].pc = "done") =>
            /\ Cardinality(KeysWritten(t)) \in {0, Len(InitBoxes)}
            /\ Cardinality(KeysWritten(t)) < Len(InitBoxes) =>
                  \A i \in DOMAIN LogOf(t) :
                      ~(LogOf(t)[i].ev = "branch" /\ LogOf(t)[i].ok)

\* The handler of task t has returned without building its own command.
EndedWithoutCommand(t) ==
    /\ HandlerDone(t)
    /\ \A i \in DOMAIN LogOf(t) :
          ~Built(LogOf(t)[i], <<tasks[t].kind, tasks[t].op>>)

\* C39: a start or finish handler that has returned without issuing its
\* start or finish command (name prompt cancelled, branch query failed, no
\* branch of the kind, selection cancelled) has left gitflow.origin and
\* gitflow.branch.<kind>.deleteRemote as they were.
C39_NoCommandNoConfigWrite ==
    \A t \in Slots :
        (tasks[t].op \in {"start", "finish"} /\ EndedWithoutCommand(t)) =>
            /\ gitConfig.origin = DefaultGitConfig.origin
            /\ gitConfig.deleteRemote = DefaultGitConfig.deleteRemote

\* The flags the finish handler of kind k passes behind the branch name for
\* the current settings, one list per answer to the tag message box.
PerKindFinishFlags(k, name) ==
    {Tail(FinishArguments(k, name, m)) : m \in TagMessageAnswers}

\* The log holds a write of the configuration key.
Propagated(log, key) ==
    \E i \in DOMAIN log : log[i].ev = "config" /\ log[i].cmd = key

\* C40: when "Finish Current Branch" issues its command on a checked-out
\* branch of kind k, it has made the configuration writes of the <k>.finish
\* handler (gitflow.origin, gitflow.branch.<k>.deleteRemote), its command
\* carries the strategy, fast-forward, preserve-merges, tag and retention
\* flags that handler resolves, and after a command that succeeded it goes
\* on to the refresh.
C40_ShorthandFinishEquivalent ==
    [][\A t \in Slots :
         LET cur == Classify(BranchStdout) IN
         (/\ tasks[t].op = "shorthandFinish"
          /\ tasks[t].pc = "exec"
          /\ tasks'[t].pc # "exec"
          /\ ~CurrentBranchFails
          /\ cur.type \in Kinds) =>
             /\ Propagated(tasks'[t].log, <<"gitflow.origin">>)
             /\ Propagated(tasks'[t].log, <<"gitflow.branch", cur.type, "deleteRemote">>)
             /\ \A i \in DOMAIN tasks'[t].log :
                   LET e == tasks'[t].log[i] IN
                   e.ev \in {"exec", "refused"} =>
                       /\ \E flags \in PerKindFinishFlags(cur.type, cur.name) :
                             e.args \in {flags, <<cur.name>> \o flags}
                       /\ (e.ev = "exec" /\ e.ok) => tasks'[t].pc = "refresh"]_vars

===========================================================================
